---- MODULE Spec2Model ----
(***************************************************************************)
(* Model of the GraphQL-interception scraping pipeline:                    *)
(*   PostProcessor.process        (src/src/post/processor.js)              *)
(*   run (interception variant)   (src/src/orchestrator/index.js 24-246)   *)
(*   driveScroll                  (src/src/image/downloader.js 346-398)    *)
(*   attachInterceptor            (src/unnamed/part_003 344-420)           *)
(* Instants are small integers, NoDate stands for a null publishedAt.      *)
(* Strings are sequences of characters so that toLowerCase and includes    *)
(* are computed, not assumed.                                              *)
(***************************************************************************)
EXTENDS Integers, Sequences, FiniteSets, TLC

\* ------------------------------------------------------------------ bounds
MaxIds == 2
MaxDate == 4
MaxCalls == 2
MaxInflight == 1
MaxWorkers == 2

\* ------------------------------------------------------- program constants
MAX_STABLE_ITERS == 3

MAX_RETRIES == 3
BASE_DELAY_MS == 1200

NoDate == 0
Ids == 1..MaxIds
Dates == 1..MaxDate
Captions == {<<>>, <<"A">>, <<"b", "a">>}
KeywordLists == {<<>>, <<<<"A">>>>, <<<<"a">>, <<"b", "b">>>>}

Posts == [postIdentifier : Ids, publishedAt : {NoDate} \cup Dates,
          captionText : Captions, hasMedia : BOOLEAN]

\* --------------------------------------------------------- string helpers
LowerChar(c) == IF c = "A" THEN "a" ELSE c

toLowerCase(s) == [i \in 1..Len(s) |-> LowerChar(s[i])]

includes(haystack, kw) ==
    \E i \in 0..Len(haystack) :
        /\ i + Len(kw) <= Len(haystack)
        /\ \A j \in 1..Len(kw) : haystack[i + j] = kw[j]

\* ------------------------------------------------------------ PostProcessor
ZeroStats == [total |-> 0, inRange |-> 0, skipped |-> 0, tooOld |-> 0,
              tooNew |-> 0, noDate |-> 0, noDup |-> 0, noKeyword |-> 0]

NewProcessor(start, end, latest, kws) ==
    [startDate |-> start, endDate |-> end, latestStoredDate |-> latest,
     keywords |-> [i \in 1..Len(kws) |-> toLowerCase(kws[i])],
     seenIds |-> {}, stats |-> ZeroStats, belowBoundary |-> FALSE]

\* the seen set is never consulted
IsDuplicate_Never(pr, post) == FALSE

IsDuplicate(pr, post) == post.postIdentifier \in pr.seenIds

HasNoDate(post) == post.publishedAt = NoDate

\* the end of the window is exclusive
IsTooNew_EndExclusive(pr, post) == post.publishedAt >= pr.endDate

IsTooNew(pr, post) == post.publishedAt > pr.endDate

IsTooOld(pr, post) == post.publishedAt < pr.startDate

\* a post dated exactly at the checkpoint passes
IsArchived_Strict(pr, post) ==
    /\ pr.latestStoredDate # NoDate
    /\ post.publishedAt < pr.latestStoredDate

IsArchived(pr, post) ==
    /\ pr.latestStoredDate # NoDate
    /\ post.publishedAt <= pr.latestStoredDate

KeywordMismatch(pr, post) ==
    /\ Len(pr.keywords) > 0
    /\ ~ \E i \in 1..Len(pr.keywords) :
            includes(toLowerCase(post.captionText), pr.keywords[i])

Bump(st, f) == [st EXCEPT ![f] = @ + 1]

\* the flag of the previous call is left standing
Enter_NoReset(pr) == [pr EXCEPT !.stats = Bump(@, "total")]

\* entry of process(): stats.total++ and the boundary flag is cleared
Enter(pr) == [pr EXCEPT !.stats = Bump(@, "total"), !.belowBoundary = FALSE]

\* wrong rule order: the no-date test ahead of the duplicate test
process_NoDateFirst(pr, post) ==
    LET p0 == Enter(pr)
        p1 == [p0 EXCEPT !.seenIds = @ \cup {post.postIdentifier}]
    IN  IF HasNoDate(post)
        THEN [proc |-> [p1 EXCEPT !.stats = Bump(@, "noDate")], accepted |-> FALSE]
        ELSE IF IsDuplicate(p0, post)
        THEN [proc |-> [p0 EXCEPT !.stats = Bump(@, "noDup")], accepted |-> FALSE]
        ELSE IF IsTooNew(p1, post)
        THEN [proc |-> [p1 EXCEPT !.stats = Bump(Bump(@, "tooNew"), "skipped")],
              accepted |-> FALSE]
        ELSE IF IsTooOld(p1, post)
        THEN [proc |-> [p1 EXCEPT !.stats = Bump(Bump(@, "tooOld"), "skipped"),
                                  !.belowBoundary = TRUE],
              accepted |-> FALSE]
        ELSE IF IsArchived(p1, post)
        THEN [proc |-> [p1 EXCEPT !.stats = Bump(@, "skipped")], accepted |-> FALSE]
        ELSE IF KeywordMismatch(p1, post)
        THEN [proc |-> [p1 EXCEPT !.stats = Bump(Bump(@, "noKeyword"), "skipped")],
              accepted |-> FALSE]
        ELSE [proc |-> [p1 EXCEPT !.stats = Bump(@, "inRange")], accepted |-> TRUE]

\* undated posts are kept instead of rejected
process_KeepsUndated(pr, post) ==
    LET p0 == Enter(pr)
        p1 == [p0 EXCEPT !.seenIds = @ \cup {post.postIdentifier}]
    IN  IF IsDuplicate(p0, post)
        THEN [proc |-> [p0 EXCEPT !.stats = Bump(@, "noDup")], accepted |-> FALSE]
        ELSE IF HasNoDate(post)
        THEN [proc |-> [p1 EXCEPT !.stats = Bump(@, "inRange")], accepted |-> TRUE]
        ELSE IF IsTooNew(p1, post)
        THEN [proc |-> [p1 EXCEPT !.stats = Bump(Bump(@, "tooNew"), "skipped")],
              accepted |-> FALSE]
        ELSE IF IsTooOld(p1, post)
        THEN [proc |-> [p1 EXCEPT !.stats = Bump(Bump(@, "tooOld"), "skipped"),
                                  !.belowBoundary = TRUE],
              accepted |-> FALSE]
        ELSE [proc |-> [p1 EXCEPT !.stats = Bump(@, "inRange")], accepted |-> TRUE]

\* only an accepted identifier is recorded as seen
process_SeenWhenAccepted(pr, post) ==
    LET p0 == Enter(pr)
        p1 == [p0 EXCEPT !.seenIds = @ \cup {post.postIdentifier}]
    IN  IF IsDuplicate(p0, post)
        THEN [proc |-> [p0 EXCEPT !.stats = Bump(@, "noDup")], accepted |-> FALSE]
        ELSE IF HasNoDate(post)
        THEN [proc |-> [p0 EXCEPT !.stats = Bump(@, "noDate")], accepted |-> FALSE]
        ELSE IF IsTooNew(p0, post)
        THEN [proc |-> [p0 EXCEPT !.stats = Bump(Bump(@, "tooNew"), "skipped")],
              accepted |-> FALSE]
        ELSE IF IsTooOld(p0, post)
        THEN [proc |-> [p0 EXCEPT !.stats = Bump(Bump(@, "tooOld"), "skipped"),
                                  !.belowBoundary = TRUE],
              accepted |-> FALSE]
        ELSE IF IsArchived(p0, post)
        THEN [proc |-> [p0 EXCEPT !.stats = Bump(@, "skipped")], accepted |-> FALSE]
        ELSE IF KeywordMismatch(p0, post)
        THEN [proc |-> [p0 EXCEPT !.stats = Bump(Bump(@, "noKeyword"), "skipped")],
              accepted |-> FALSE]
        ELSE [proc |-> [p1 EXCEPT !.stats = Bump(@, "inRange")], accepted |-> TRUE]

\* already-archived rejections are not counted as skipped
process_ArchivedUncounted(pr, post) ==
    LET p0 == Enter(pr)
        p1 == [p0 EXCEPT !.seenIds = @ \cup {post.postIdentifier}]
    IN  IF IsDuplicate(p0, post)
        THEN [proc |-> [p0 EXCEPT !.stats = Bump(@, "noDup")], accepted |-> FALSE]
        ELSE IF HasNoDate(post)
        THEN [proc |-> [p1 EXCEPT !.stats = Bump(@, "noDate")], accepted |-> FALSE]
        ELSE IF IsTooNew(p1, post)
        THEN [proc |-> [p1 EXCEPT !.stats = Bump(Bump(@, "tooNew"), "skipped")],
              accepted |-> FALSE]
        ELSE IF IsTooOld(p1, post)
        THEN [proc |-> [p1 EXCEPT !.stats = Bump(Bump(@, "tooOld"), "skipped"),
                                  !.belowBoundary = TRUE],
              accepted |-> FALSE]
        ELSE IF IsArchived(p1, post)
        THEN [proc |-> p1, accepted |-> FALSE]
        ELSE IF KeywordMismatch(p1, post)
        THEN [proc |-> [p1 EXCEPT !.stats = Bump(Bump(@, "noKeyword"), "skipped")],
              accepted |-> FALSE]
        ELSE [proc |-> [p1 EXCEPT !.stats = Bump(@, "inRange")], accepted |-> TRUE]

\* process(post): the new processor state and the returned boolean
process(pr, post) ==
    LET p0 == Enter(pr)
        p1 == [p0 EXCEPT !.seenIds = @ \cup {post.postIdentifier}]
    IN  IF IsDuplicate(p0, post)
        THEN [proc |-> [p0 EXCEPT !.stats = Bump(@, "noDup")], accepted |-> FALSE]
        ELSE IF HasNoDate(post)
        THEN [proc |-> [p1 EXCEPT !.stats = Bump(@, "noDate")], accepted |-> FALSE]
        ELSE IF IsTooNew(p1, post)
        THEN [proc |-> [p1 EXCEPT !.stats = Bump(Bump(@, "tooNew"), "skipped")],
              accepted |-> FALSE]
        ELSE IF IsTooOld(p1, post)
        THEN [proc |-> [p1 EXCEPT !.stats = Bump(Bump(@, "tooOld"), "skipped"),
                                  !.belowBoundary = TRUE],
              accepted |-> FALSE]
        ELSE IF IsArchived(p1, post)
        THEN [proc |-> [p1 EXCEPT !.stats = Bump(@, "skipped")], accepted |-> FALSE]
        ELSE IF KeywordMismatch(p1, post)
        THEN [proc |-> [p1 EXCEPT !.stats = Bump(Bump(@, "noKeyword"), "skipped")],
              accepted |-> FALSE]
        ELSE [proc |-> [p1 EXCEPT !.stats = Bump(@, "inRange")], accepted |-> TRUE]

\* ------------------------------------------------------------------ state
VARIABLES
    processor,            \* the PostProcessor instance of the run
    lastPost,             \* the argument of the latest process() call
    acceptCount,          \* onValidPost invocations per identifier
    pc,                   \* position of run()
    workers,              \* opts.workers
    totalIntercepted, lastBatchIntercepted, hadNewData,
    pendingNewPosts, dateBoundaryHit,
    stats,                \* run()'s stats object
    scroller,             \* the driveScroll generator
    queue,                \* PQueue: jobs waiting
    running,              \* PQueue: jobs started and not finished
    listening,            \* the response listener is attached
    inflight,             \* handleResponse calls suspended at response.json()
    pageOpen,             \* the page can still be driven
    eofShown,             \* the end-of-feed text is on the page
    db,                   \* datastore: connection, posts, session
    obs                   \* history of the run needed to state the claims

vars == <<processor, lastPost, acceptCount, pc, workers, totalIntercepted,
          lastBatchIntercepted, hadNewData, pendingNewPosts, dateBoundaryHit,
          stats, scroller, queue, running, listening, inflight, pageOpen,
          eofShown, db, obs>>

NoPost == [postIdentifier |-> 0]

\* positions of run() after the scroll loop has exited
AfterLoop == {"drain", "closing_browser", "finalizing", "date_range",
              "closing_db", "returned", "raised"}

\* run() has settled: summary returned, or an error propagated
Terminal == {"returned", "raised", "nav_raised", "nav_close_raised"}

\* ------------------------------------------------------------- datastore
\* getLatestPublishedAt: newest published_at of the stored posts, or null
getLatestPublishedAt(posts) ==
    IF posts = {} THEN NoDate
    ELSE CHOOSE d \in {p.publishedAt : p \in posts} :
            \A p \in posts : p.publishedAt <= d

StoredIds(posts) == {p.postIdentifier : p \in posts}

\* upsert: a later insert replaces the stored record
insertPost_Overwrite(posts, post, imagePath) ==
    [posts |-> {p \in posts : p.postIdentifier # post.postIdentifier}
                  \cup {[postIdentifier |-> post.postIdentifier,
                         publishedAt |-> post.publishedAt,
                         imagePath |-> imagePath]},
     inserted |-> post.postIdentifier \notin StoredIds(posts)]

\* insertPost: INSERT IGNORE on the unique post_identifier
insertPost(posts, post, imagePath) ==
    IF post.postIdentifier \in StoredIds(posts)
    THEN [posts |-> posts, inserted |-> FALSE]
    ELSE [posts |-> posts \cup {[postIdentifier |-> post.postIdentifier,
                                 publishedAt |-> post.publishedAt,
                                 imagePath |-> imagePath]},
          inserted |-> TRUE]

ZeroRunStats == [processed |-> 0, skipped |-> 0, errors |-> 0,
                 images |-> 0, imageFails |-> 0]

ZeroObs == [ticksSinceBoundary |-> 0, verdictsSinceEmit |-> 0,
            addedAfterLoop |-> 0,
            finalizeCalled |-> FALSE, unfinishedAtFinalize |-> 0]

\* ---------------------------------------------------- interceptor callback
\* no limit on the number of jobs started
HasFreeWorker_Unbounded(r) == TRUE

\* PQueue starts a job only while fewer than `concurrency` jobs are running
HasFreeWorker(r) == Cardinality(r) < workers

\* a job as it stands when PQueue has started it: the job function runs up to
\* its first await, the download or, with no media URL, insertPost
Started(post) ==
    [post |-> post, step |-> IF post.hasMedia THEN "download" ELSE "insert",
     imagePath |-> "null"]

\* a waiting job is put at the head of the queue
QueueAdd_Lifo(q, r, post) ==
    IF HasFreeWorker(r)
    THEN [queue |-> q, running |-> r \cup {Started(post)}]
    ELSE [queue |-> <<post>> \o q, running |-> r]

\* queue.add(job): the job starts at once if a worker is free, else it waits
QueueAdd(q, r, post) ==
    IF HasFreeWorker(r)
    THEN [queue |-> q, running |-> r \cup {Started(post)}]
    ELSE [queue |-> Append(q, post), running |-> r]

\* a running job settled: PQueue starts the job at the head of the queue
JobSettled(q, r, j) ==
    LET r2 == r \ {j}
    IN  IF q # <<>> /\ HasFreeWorker(r2)
        THEN [queue |-> Tail(q), running |-> r2 \cup {Started(Head(q))}]
        ELSE [queue |-> q, running |-> r2]

\* onValidPost: count the post and add its job to the worker pool
onValidPost(post) ==
    /\ pendingNewPosts' = pendingNewPosts + 1
    /\ queue' = QueueAdd(queue, running, post).queue
    /\ running' = QueueAdd(queue, running, post).running

\* the callback given to attachInterceptor, process() and onValidPost included
OnPost(post) ==
    LET r == process(processor, post)
    IN  /\ totalIntercepted' = totalIntercepted + 1
        /\ processor' = r.proc
        /\ lastPost' = post
        /\ IF r.accepted
           THEN /\ onValidPost(post)
                /\ acceptCount' = [acceptCount EXCEPT ![post.postIdentifier] = @ + 1]
           ELSE UNCHANGED <<pendingNewPosts, queue, running, acceptCount>>
        /\ dateBoundaryHit' =
              IF ~r.accepted /\ r.proc.belowBoundary THEN TRUE ELSE dateBoundaryHit
        /\ obs' = [obs EXCEPT
              !.verdictsSinceEmit = 0,
              !.addedAfterLoop = IF r.accepted /\ pc \in AfterLoop THEN @ + 1 ELSE @]

\* a qualifying response fires the listener; the handler suspends at
\* response.json()
ResponseArrives ==
    /\ listening
    /\ pageOpen
    /\ pc \notin Terminal
    /\ inflight < MaxInflight
    /\ inflight' = inflight + 1
    /\ UNCHANGED <<processor, lastPost, acceptCount, pc, workers, totalIntercepted,
                   lastBatchIntercepted, hadNewData, pendingNewPosts,
                   dateBoundaryHit, stats, scroller, queue, running, listening,
                   pageOpen, eofShown, db, obs>>

\* the body arrived: the handler resumes and emits the post it found (a body
\* holding several posts emits them one after the other, each as here)
HandlerEmits(post) ==
    /\ inflight > 0
    /\ pc \notin Terminal
    /\ pageOpen
    /\ totalIntercepted < MaxCalls
    /\ inflight' = inflight - 1
    /\ OnPost(post)
    /\ UNCHANGED <<pc, workers, lastBatchIntercepted, hadNewData, stats, scroller,
                   listening, pageOpen, eofShown, db>>

\* response.json() rejected, or the body holds no post node
HandlerDrops ==
    /\ inflight > 0
    /\ pc \notin Terminal
    /\ inflight' = inflight - 1
    /\ UNCHANGED <<processor, lastPost, acceptCount, pc, workers, totalIntercepted,
                   lastBatchIntercepted, hadNewData, pendingNewPosts,
                   dateBoundaryHit, stats, scroller, queue, running, listening,
                   pageOpen, eofShown, db, obs>>

\* ------------------------------------------------------------ driveScroll
\* scroller fields: pc and stableCount are the generator's own (its iteration
\* counter only numbers the log lines and is left out); why (which return
\* statement ended it), reports (the latest verdicts received at the yield)
\* and ops (page operations since the latest verdict) record its history.
NewScroller == [pc |-> "unstarted", stableCount |-> 0,
                why |-> "none", reports |-> <<>>, ops |-> 0]

LastReports(reports, v) ==
    LET all == Append(reports, v)
    IN  IF Len(all) > MAX_STABLE_ITERS
        THEN SubSeq(all, Len(all) - MAX_STABLE_ITERS + 1, Len(all))
        ELSE all

\* a tick starts with the scroll, without the end-of-feed query
BeginTick_SkipsEofCheck(sc) == [sc EXCEPT !.pc = "scroll"]

\* the generator begins a loop iteration: the end-of-feed query is issued
BeginTick(sc) == [sc EXCEPT !.pc = "check_eof"]

\* a report of new content does not reset the count
ResumeFromYield_NoReset(sc, hasNewPosts) ==
    LET n == IF hasNewPosts THEN sc.stableCount ELSE sc.stableCount + 1
        s1 == [sc EXCEPT !.stableCount = n, !.ops = 0,
                         !.reports = LastReports(@, hasNewPosts)]
    IN  IF n >= MAX_STABLE_ITERS
        THEN [s1 EXCEPT !.pc = "done", !.why = "stable"]
        ELSE BeginTick(s1)

\* off by one: the driver stops only when the count exceeds the maximum
ResumeFromYield_Late(sc, hasNewPosts) ==
    LET n == IF hasNewPosts THEN 0 ELSE sc.stableCount + 1
        s1 == [sc EXCEPT !.stableCount = n, !.ops = 0,
                         !.reports = LastReports(@, hasNewPosts)]
    IN  IF n > MAX_STABLE_ITERS
        THEN [s1 EXCEPT !.pc = "done", !.why = "stable"]
        ELSE BeginTick(s1)

\* the generator resumes from its yield with the caller's verdict
ResumeFromYield(sc, hasNewPosts) ==
    LET n == IF hasNewPosts THEN 0 ELSE sc.stableCount + 1
        s1 == [sc EXCEPT !.stableCount = n, !.ops = 0,
                         !.reports = LastReports(@, hasNewPosts)]
    IN  IF n >= MAX_STABLE_ITERS
        THEN [s1 EXCEPT !.pc = "done", !.why = "stable"]
        ELSE BeginTick(s1)

\* scroller.next(v) as seen by the generator
GeneratorNext(sc, v) ==
    CASE sc.pc = "unstarted" -> BeginTick(sc)
      [] sc.pc = "yielded"   -> ResumeFromYield(sc, v)
      [] OTHER               -> sc

TickStarted(sc, sc2) == sc.pc \in {"unstarted", "yielded"} /\ sc2.pc = "check_eof"

GenUnchanged ==
    UNCHANGED <<processor, lastPost, acceptCount, pc, workers, totalIntercepted,
                lastBatchIntercepted, hadNewData, pendingNewPosts,
                dateBoundaryHit, stats, queue, running, listening, inflight,
                pageOpen, eofShown, db, obs>>

\* checkFeedExhausted(page).catch(() => false)
GenCheckEof ==
    /\ scroller.pc = "check_eof"
    /\ pc \notin Terminal
    /\ scroller' = IF pageOpen /\ eofShown
                   THEN [scroller EXCEPT !.pc = "done", !.why = "eof", !.ops = @ + 1]
                   ELSE [scroller EXCEPT !.pc = "scroll", !.ops = @ + 1]
    /\ GenUnchanged

\* page.evaluate(scrollTo ...).catch(() => {})
GenScroll ==
    /\ scroller.pc = "scroll"
    /\ pc \notin Terminal
    /\ scroller' = [scroller EXCEPT !.pc = "mouse", !.ops = @ + 1]
    /\ GenUnchanged

\* page.mouse.move(640, 400).catch(() => {})
GenMouse ==
    /\ scroller.pc = "mouse"
    /\ pc \notin Terminal
    /\ scroller' = [scroller EXCEPT !.pc = "netidle", !.ops = @ + 1]
    /\ GenUnchanged

\* waitNetworkIdle(page, NETWORK_IDLE_MS)
GenNetIdle ==
    /\ scroller.pc = "netidle"
    /\ pc \notin Terminal
    /\ scroller' = [scroller EXCEPT !.pc = "pause", !.ops = @ + 1]
    /\ GenUnchanged

\* the failure of the pause is ignored: the tick is yielded all the same
GenPause_YieldsOnClosedPage ==
    /\ scroller.pc = "pause"
    /\ pc \notin Terminal
    /\ scroller' = [scroller EXCEPT !.pc = "yielded", !.ops = @ + 1]
    /\ GenUnchanged

\* page.waitForTimeout(SCROLL_PAUSE_MS): yields, or returns if the page is closed
GenPause ==
    /\ scroller.pc = "pause"
    /\ pc \notin Terminal
    /\ scroller' = IF pageOpen
                   THEN [scroller EXCEPT !.pc = "yielded", !.ops = @ + 1]
                   ELSE [scroller EXCEPT !.pc = "done", !.why = "closed", !.ops = @ + 1]
    /\ GenUnchanged

\* ------------------------------------------------------------- environment
\* the feed shows its end-of-feed text
FeedEnds ==
    /\ pageOpen
    /\ ~eofShown
    /\ pc \in {"await_prime", "await_tick"}
    /\ eofShown' = TRUE
    /\ UNCHANGED <<processor, lastPost, acceptCount, pc, workers, totalIntercepted,
                   lastBatchIntercepted, hadNewData, pendingNewPosts,
                   dateBoundaryHit, stats, scroller, queue, running, listening,
                   inflight, pageOpen, db, obs>>

\* the page is closed or crashes while run() is driving it
PageCloses ==
    /\ pageOpen
    /\ pc \in {"await_prime", "await_tick"}
    /\ pageOpen' = FALSE
    /\ UNCHANGED <<processor, lastPost, acceptCount, pc, workers, totalIntercepted,
                   lastBatchIntercepted, hadNewData, pendingNewPosts,
                   dateBoundaryHit, stats, scroller, queue, running, listening,
                   inflight, eofShown, db, obs>>

\* ------------------------------------------------------------------- run()
\* the verdict counts only the posts that passed the filter
LoopTop_AcceptedOnly ==
    LET v == processor.stats.inRange > lastBatchIntercepted
        sc2 == GeneratorNext(scroller, v)
    IN  /\ hadNewData' = v
        /\ lastBatchIntercepted' = processor.stats.inRange
        /\ scroller' = sc2
        /\ pc' = "await_tick"
        /\ obs' = [obs EXCEPT
              !.verdictsSinceEmit = @ + 1,
              !.ticksSinceBoundary =
                  IF dateBoundaryHit /\ TickStarted(scroller, sc2) THEN @ + 1 ELSE @]

\* top of the while loop up to the await: the verdict is computed and handed
\* to the generator
LoopTop ==
    LET v == totalIntercepted > lastBatchIntercepted
        sc2 == GeneratorNext(scroller, v)
    IN  /\ hadNewData' = v
        /\ lastBatchIntercepted' = totalIntercepted
        /\ scroller' = sc2
        /\ pc' = "await_tick"
        /\ obs' = [obs EXCEPT
              !.verdictsSinceEmit = @ + 1,
              !.ticksSinceBoundary =
                  IF dateBoundaryHit /\ TickStarted(scroller, sc2) THEN @ + 1 ELSE @]

\* the date-boundary test is skipped after a tick
BoundaryBreak_Never == FALSE

\* if (dateBoundaryHit) break
BoundaryBreak == dateBoundaryHit

RunUnchanged ==
    UNCHANGED <<processor, lastPost, acceptCount, workers, totalIntercepted,
                pendingNewPosts, dateBoundaryHit, stats, queue, running,
                inflight, eofShown>>

\* await navigateTo(page, url) succeeded; driveScroll(page); scroller.next()
NavigateOk ==
    /\ pc = "navigate"
    /\ pc' = "await_prime"
    /\ scroller' = GeneratorNext(scroller, FALSE)
    /\ obs' = [obs EXCEPT !.ticksSinceBoundary = IF dateBoundaryHit THEN @ + 1 ELSE @]
    /\ UNCHANGED <<lastBatchIntercepted, hadNewData, listening, pageOpen, db>>
    /\ RunUnchanged

\* the listener stays attached on the failure path
NavigateFails_KeepsListening ==
    /\ pc = "navigate"
    /\ pc' = "nav_closing_browser"
    /\ UNCHANGED <<lastBatchIntercepted, hadNewData, scroller, listening, pageOpen, db, obs>>
    /\ RunUnchanged

\* navigateTo raised: interceptor.stop(), then closeBrowser is awaited
NavigateFails ==
    /\ pc = "navigate"
    /\ pc' = "nav_closing_browser"
    /\ listening' = FALSE
    /\ UNCHANGED <<lastBatchIntercepted, hadNewData, scroller, pageOpen, db, obs>>
    /\ RunUnchanged

\* closeBrowser done on the failure path; closeDb is awaited
NavBrowserClosed ==
    /\ pc = "nav_closing_browser"
    /\ pc' = "nav_closing_db"
    /\ pageOpen' = FALSE
    /\ UNCHANGED <<lastBatchIntercepted, hadNewData, scroller, listening, db, obs>>
    /\ RunUnchanged

\* closeDb done on the failure path; the navigation error is rethrown
NavDbClosed ==
    /\ pc = "nav_closing_db"
    /\ pc' = "nav_raised"
    /\ db' = [db EXCEPT !.open = FALSE]
    /\ UNCHANGED <<lastBatchIntercepted, hadNewData, scroller, listening, pageOpen, obs>>
    /\ RunUnchanged

\* closeDb raised on the failure path: its error, not the navigation error,
\* leaves run()
NavCloseRaises ==
    /\ pc = "nav_closing_db"
    /\ pc' = "nav_close_raised"
    /\ UNCHANGED <<lastBatchIntercepted, hadNewData, scroller, listening, pageOpen, db, obs>>
    /\ RunUnchanged

\* the priming scroller.next() settled: first pass through the loop top
PrimeReturned ==
    /\ pc = "await_prime"
    /\ scroller.pc \in {"yielded", "done"}
    /\ LoopTop
    /\ UNCHANGED <<listening, pageOpen, db>>
    /\ RunUnchanged

\* scroller.next(hadNewData) settled: break on done or on the date boundary,
\* otherwise go round the loop
TickReturned ==
    /\ pc = "await_tick"
    /\ scroller.pc \in {"yielded", "done"}
    /\ IF scroller.pc = "done" \/ BoundaryBreak
       THEN /\ pc' = "drain"
            /\ UNCHANGED <<lastBatchIntercepted, hadNewData, scroller, obs>>
       ELSE LoopTop
    /\ UNCHANGED <<listening, pageOpen, db>>
    /\ RunUnchanged

\* queue.onIdle() resolves when nothing is queued and nothing is running
Idle == queue = <<>> /\ running = {}

DrainGuard == Idle

\* await queue.onIdle() settled; interceptor.stop(); closeBrowser is awaited
DrainDone ==
    /\ pc = "drain"
    /\ DrainGuard
    /\ pc' = "closing_browser"
    /\ listening' = FALSE
    /\ UNCHANGED <<lastBatchIntercepted, hadNewData, scroller, pageOpen, db, obs>>
    /\ RunUnchanged

\* closeBrowser done; logSummary; finalizeSession is called with the counters
\* as they are now
BrowserClosed ==
    /\ pc = "closing_browser"
    /\ pc' = "finalizing"
    /\ pageOpen' = FALSE
    /\ db' = [db EXCEPT !.pendingCounters =
                 [processed |-> stats.processed,
                  skipped |-> processor.stats.skipped,
                  errors |-> stats.errors]]
    /\ obs' = [obs EXCEPT
          !.finalizeCalled = TRUE,
          !.unfinishedAtFinalize = Len(queue) + Cardinality(running)]
    /\ UNCHANGED <<lastBatchIntercepted, hadNewData, scroller, listening>>
    /\ RunUnchanged

\* finalizeSession wrote the session row; getPostDateRange is awaited
FinalizeDone ==
    /\ pc = "finalizing"
    /\ db.open
    /\ pc' = "date_range"
    /\ db' = [db EXCEPT !.session = "finalized", !.counters = db.pendingCounters]
    /\ UNCHANGED <<lastBatchIntercepted, hadNewData, scroller, listening, pageOpen, obs>>
    /\ RunUnchanged

\* getPostDateRange answered; closeDb is awaited
DateRangeDone ==
    /\ pc = "date_range"
    /\ db.open
    /\ pc' = "closing_db"
    /\ UNCHANGED <<lastBatchIntercepted, hadNewData, scroller, listening, pageOpen, db, obs>>
    /\ RunUnchanged

\* closeDb done; the summary is built and returned
DbClosed ==
    /\ pc = "closing_db"
    /\ pc' = "returned"
    /\ db' = [db EXCEPT !.open = FALSE]
    /\ UNCHANGED <<lastBatchIntercepted, hadNewData, scroller, listening, pageOpen, obs>>
    /\ RunUnchanged

\* a datastore call made after the drain raises; nothing catches it
FinalizeRaises ==
    /\ pc \in {"finalizing", "date_range", "closing_db"}
    /\ pc' = "raised"
    /\ UNCHANGED <<lastBatchIntercepted, hadNewData, scroller, listening, pageOpen, db, obs>>
    /\ RunUnchanged

\* ---------------------------------------------------------------- worker pool
JobUnchanged ==
    UNCHANGED <<processor, lastPost, acceptCount, pc, workers, totalIntercepted,
                lastBatchIntercepted, hadNewData, pendingNewPosts,
                dateBoundaryHit, scroller, listening, inflight, pageOpen,
                eofShown>>

\* downloadImage returned a path: stats.images++, insertPost is called
DownloadOk(j) ==
    /\ j \in running
    /\ j.step = "download"
    /\ pc \notin Terminal
    /\ stats' = [stats EXCEPT !.images = @ + 1]
    /\ running' = (running \ {j}) \cup {[j EXCEPT !.step = "insert", !.imagePath = "file"]}
    /\ UNCHANGED <<queue, db, obs>>
    /\ JobUnchanged

\* a failed download ends the job: insertPost is never called for the post
DownloadFails_DropsPost(j) ==
    /\ j \in running
    /\ j.step = "download"
    /\ pc \notin Terminal
    /\ stats' = [stats EXCEPT !.imageFails = @ + 1, !.errors = @ + 1]
    /\ queue' = JobSettled(queue, running, j).queue
    /\ running' = JobSettled(queue, running, j).running
    /\ UNCHANGED <<db, obs>>
    /\ JobUnchanged

\* downloadImage raised: the failure is counted, insertPost is called with
\* a null path
DownloadFails(j) ==
    /\ j \in running
    /\ j.step = "download"
    /\ pc \notin Terminal
    /\ stats' = [stats EXCEPT !.imageFails = @ + 1, !.errors = @ + 1]
    /\ running' = (running \ {j}) \cup {[j EXCEPT !.step = "insert"]}
    /\ UNCHANGED <<queue, db, obs>>
    /\ JobUnchanged

\* insertPost answered: a new row counts as processed, a duplicate does not
InsertDone(j) ==
    /\ j \in running
    /\ j.step = "insert"
    /\ pc \notin Terminal
    /\ db.open
    /\ LET r == insertPost(db.posts, j.post, j.imagePath)
       IN  /\ db' = [db EXCEPT !.posts = r.posts]
           /\ stats' = IF r.inserted THEN [stats EXCEPT !.processed = @ + 1] ELSE stats
    /\ queue' = JobSettled(queue, running, j).queue
    /\ running' = JobSettled(queue, running, j).running
    /\ UNCHANGED obs
    /\ JobUnchanged

\* the error of insertPost is swallowed without being counted
InsertRaises_Uncounted(j) ==
    /\ j \in running
    /\ j.step = "insert"
    /\ pc \notin Terminal
    /\ queue' = JobSettled(queue, running, j).queue
    /\ running' = JobSettled(queue, running, j).running
    /\ UNCHANGED <<stats, db, obs>>
    /\ JobUnchanged

\* insertPost raised: the error is counted and the job ends
InsertRaises(j) ==
    /\ j \in running
    /\ j.step = "insert"
    /\ pc \notin Terminal
    /\ stats' = [stats EXCEPT !.errors = @ + 1]
    /\ queue' = JobSettled(queue, running, j).queue
    /\ running' = JobSettled(queue, running, j).running
    /\ UNCHANGED <<db, obs>>
    /\ JobUnchanged

\* ------------------------------------------------------------------- Init
InitCommon ==
    /\ lastPost = NoPost
    /\ acceptCount = [i \in Ids |-> 0]
    /\ pc = "navigate"
    /\ totalIntercepted = 0
    /\ lastBatchIntercepted = 0
    /\ hadNewData = FALSE
    /\ pendingNewPosts = 0
    /\ dateBoundaryHit = FALSE
    /\ stats = ZeroRunStats
    /\ scroller = NewScroller
    /\ queue = <<>>
    /\ running = {}
    /\ listening = TRUE
    /\ inflight = 0
    /\ pageOpen = TRUE
    /\ eofShown = FALSE
    /\ obs = ZeroObs

\* what an earlier run left in the datastore
InitialStores == {{[postIdentifier |-> 1, publishedAt |-> 2, imagePath |-> "null"]}}

NoCounters == [processed |-> 0, skipped |-> 0, errors |-> 0]

NewDb(stored) == [open |-> TRUE, posts |-> stored, session |-> "open",
                  counters |-> NoCounters, pendingCounters |-> NoCounters]

\* the posts the feed of a run serves: in range with and without media,
\* too old, undated, too new
RunPosts ==
    {[postIdentifier |-> 1, publishedAt |-> 3, captionText |-> <<"A">>, hasMedia |-> TRUE],
     [postIdentifier |-> 2, publishedAt |-> 3, captionText |-> <<"A">>, hasMedia |-> FALSE],
     [postIdentifier |-> 2, publishedAt |-> 1, captionText |-> <<>>, hasMedia |-> FALSE],
     [postIdentifier |-> 1, publishedAt |-> NoDate, captionText |-> <<>>, hasMedia |-> TRUE],
     [postIdentifier |-> 1, publishedAt |-> 4, captionText |-> <<>>, hasMedia |-> TRUE]}

\* run() has connected, read the checkpoint, created the session, built the
\* worker pool and the processor, launched the browser and attached the
\* interceptor; it is about to navigate.
Init ==
    /\ InitCommon
    /\ workers \in 1..MaxWorkers
    /\ \E stored \in InitialStores, kws \in {<<<<"A">>>>} :
        /\ db = NewDb(stored)
        /\ processor = NewProcessor(2, 3, getLatestPublishedAt(stored), kws)

Next ==
    \/ ResponseArrives
    \/ \E post \in RunPosts : HandlerEmits(post)
    \/ HandlerDrops
    \/ GenCheckEof
    \/ GenScroll
    \/ GenMouse
    \/ GenNetIdle
    \/ GenPause
    \/ FeedEnds
    \/ PageCloses
    \/ NavigateOk
    \/ NavigateFails
    \/ NavBrowserClosed
    \/ NavDbClosed
    \/ NavCloseRaises
    \/ PrimeReturned
    \/ TickReturned
    \/ DrainDone
    \/ BrowserClosed
    \/ FinalizeDone
    \/ DateRangeDone
    \/ DbClosed
    \/ FinalizeRaises
    \/ \E j \in running : DownloadOk(j)
    \/ \E j \in running : DownloadFails(j)
    \/ \E j \in running : InsertDone(j)
    \/ \E j \in running : InsertRaises(j)

Spec == Init /\ [][Next]_vars

\* Scheduling: the event loop runs every continuation that is ready, so
\* run(), the generator and the worker jobs each keep making steps; the
\* network is under no obligation to deliver another response.
RunStep ==
    \/ NavigateOk \/ NavigateFails \/ NavBrowserClosed \/ NavDbClosed
    \/ NavCloseRaises
    \/ PrimeReturned \/ TickReturned \/ DrainDone \/ BrowserClosed
    \/ FinalizeDone \/ DateRangeDone \/ DbClosed \/ FinalizeRaises

GenStep == GenCheckEof \/ GenScroll \/ GenMouse \/ GenNetIdle \/ GenPause

JobStep ==
    \E j \in running :
        DownloadOk(j) \/ DownloadFails(j) \/ InsertDone(j) \/ InsertRaises(j)

LiveSpec ==
    /\ Init /\ [][Next]_vars
    /\ WF_vars(RunStep) /\ WF_vars(GenStep)
    /\ WF_vars(JobStep)

\* --------------------------------------------- the filter stage on its own
FilterPosts == {p \in Posts : p.hasMedia}

\* a processor with any checkpoint and keyword list, before its first call
FilterInit ==
    /\ InitCommon
    /\ workers = 1
    /\ db = NewDb({})
    /\ \E latest \in {NoDate} \cup Dates, kws \in KeywordLists :
          processor = NewProcessor(2, 3, latest, kws)

\* the interceptor callback is invoked with an arbitrary post
ProcessCall(post) ==
    /\ totalIntercepted < MaxCalls
    /\ OnPost(post)
    /\ UNCHANGED <<pc, workers, lastBatchIntercepted, hadNewData, stats, scroller,
                   listening, inflight, pageOpen, eofShown, db>>

FilterNext == \E post \in FilterPosts : ProcessCall(post)

FilterSpec == FilterInit /\ [][FilterNext]_vars

\* ------------------------------------------------ a sequence of runs
\* What one run leaves in the datastore is what the next one resumes from.
\* A run is taken here as its callback invocations and its insert jobs; the
\* scroll loop, which touches neither the processor nor the stored posts,
\* is left out, so a run may end after any number of posts.
ResumePosts ==
    {p \in Posts : /\ p.publishedAt \in {2, 3}
                   /\ p.captionText = <<>>
                   /\ ~p.hasMedia}

\* the first run, against an empty datastore
ResumeInit ==
    /\ InitCommon
    /\ workers \in 1..MaxWorkers
    /\ db = NewDb({})
    /\ processor = NewProcessor(2, 3, getLatestPublishedAt({}), <<>>)

\* the run has ended with its pool idle; the next run connects, reads the
\* checkpoint from the stored posts, creates its session and its processor
NextRun ==
    /\ Idle
    /\ totalIntercepted > 0
    /\ db' = NewDb(db.posts)
    /\ processor' = NewProcessor(2, 3, getLatestPublishedAt(db.posts), <<>>)
    /\ lastPost' = NoPost
    /\ acceptCount' = [i \in Ids |-> 0]
    /\ totalIntercepted' = 0
    /\ pendingNewPosts' = 0
    /\ dateBoundaryHit' = FALSE
    /\ stats' = ZeroRunStats
    /\ obs' = ZeroObs
    /\ UNCHANGED <<pc, workers, lastBatchIntercepted, hadNewData, scroller, queue,
                   running, listening, inflight, pageOpen, eofShown>>

ResumeNext ==
    \/ \E post \in ResumePosts : ProcessCall(post)
    \/ \E j \in running : InsertDone(j)
    \/ \E j \in running : InsertRaises(j)
    \/ NextRun

ResumeSpec == ResumeInit /\ [][ResumeNext]_vars

\* ------------------------------------------------------------ downloadImage
\* The retry loop of one downloadImage call, followed attempt by attempt.
\* A call is a record: step (where the call stands), attempt (the loop
\* variable), failed (attempts that raised so far) and waits (the delays it
\* has started, in milliseconds).
NewDownload(post) ==
    [post |-> post, step |-> "attempt", attempt |-> 1, failed |-> 0, waits |-> <<>>]

\* every retry waits the base delay
BackoffDelay_Fixed(attempt) == BASE_DELAY_MS

\* BASE_DELAY_MS * Math.pow(2, attempt - 1)
BackoffDelay(attempt) == BASE_DELAY_MS * 2 ^ (attempt - 1)

DownloadUnchanged ==
    UNCHANGED <<processor, lastPost, acceptCount, pc, workers, totalIntercepted,
                lastBatchIntercepted, hadNewData, pendingNewPosts,
                dateBoundaryHit, stats, scroller, queue, listening, inflight,
                pageOpen, eofShown, db, obs>>

\* axios.get answered and the file is written: return filepath
AttemptOk(d) ==
    /\ d \in running
    /\ d.step = "attempt"
    /\ running' = (running \ {d}) \cup {[d EXCEPT !.step = "returned"]}
    /\ DownloadUnchanged

\* the attempt raised: wait and go round the loop, or leave the loop after
\* the last attempt and throw
AttemptFails(d) ==
    /\ d \in running
    /\ d.step = "attempt"
    /\ running' = (running \ {d}) \cup
          {IF d.attempt < MAX_RETRIES
           THEN [d EXCEPT !.step = "backoff", !.failed = @ + 1,
                          !.waits = Append(@, BackoffDelay(d.attempt))]
           ELSE [d EXCEPT !.step = "raised", !.failed = @ + 1]}
    /\ DownloadUnchanged

\* the delay elapsed: attempt++ and the next attempt starts
BackoffElapsed(d) ==
    /\ d \in running
    /\ d.step = "backoff"
    /\ running' = (running \ {d}) \cup
          {[d EXCEPT !.step = "attempt", !.attempt = @ + 1]}
    /\ DownloadUnchanged

\* a job calls downloadImage for its post, which has a media URL
DownloadCalled(post) ==
    /\ HasFreeWorker(running)
    /\ \A d \in running : d.post.postIdentifier # post.postIdentifier
    /\ running' = running \cup {NewDownload(post)}
    /\ DownloadUnchanged

DownloadPosts == {p \in FilterPosts : p.publishedAt \in {2, 3} /\ p.captionText = <<>>}

DownloadInit ==
    /\ InitCommon
    /\ workers \in 1..MaxWorkers
    /\ db = NewDb({})
    /\ processor = NewProcessor(2, 3, NoDate, <<>>)

DownloadNext ==
    \/ \E post \in DownloadPosts : DownloadCalled(post)
    \/ \E d \in running : AttemptOk(d)
    \/ \E d \in running : AttemptFails(d)
    \/ \E d \in running : BackoffElapsed(d)

DownloadSpec == DownloadInit /\ [][DownloadNext]_vars

\* ------------------------------------------------ DOM variant of run()
\* half-open: the end instant itself is out of range
isWithinRange_HalfOpen(date, startDate, endDate) ==
    IF date = NoDate THEN FALSE
    ELSE date >= startDate /\ date < endDate

\* isWithinRange: the closed interval [startDate, endDate]; false for a
\* missing date
isWithinRange(date, startDate, endDate) ==
    IF date = NoDate THEN FALSE
    ELSE date >= startDate /\ date <= endDate

ZeroDomStats == [discovered |-> 0, processed |-> 0, skipped |-> 0, errors |-> 0,
                 inferenceSuccesses |-> 0, inferenceFails |-> 0]

\* the locals of run(): the options, the checkpoint and processedIds
NewDomRun(start, end, latest) ==
    [startDate |-> start, endDate |-> end, latestStoredDate |-> latest,
     processedIds |-> {}]

\* the batch the loop is working through: handles not yet extracted and the
\* batch's reachedOldBoundary; batches counts the yields of scrollGen
NoBatch == [handles |-> 0, reachedOldBoundary |-> FALSE, batches |-> 0]

\* the loop awaits an operation on the page: scrollGen.next() (the generator
\* evaluates, queries, scrolls and pauses on the page) or extractPost (the
\* handle of the page is evaluated)
LoopOnPage == pc \in {"dom_next", "dom_extract"}

\* processPost awaits fetchImageAsBase64(imageUrl, page): page.evaluate runs
\* the fetch in the page
JobOnPage(j) == j.step = "fetch"

\* processPost as PQueue has started it: with an image URL it runs up to the
\* await of fetchImageAsBase64, else it goes straight to insertPost
DomStarted(post) ==
    [post |-> post, step |-> IF post.hasMedia THEN "fetch" ELSE "insert"]

\* enqueuePost: queue.add starts the job at once if a worker is free
enqueuePost(q, r, post) ==
    IF HasFreeWorker(r)
    THEN [queue |-> q, running |-> r \cup {DomStarted(post)}]
    ELSE [queue |-> Append(q, post), running |-> r]

\* a job settled: PQueue starts the job at the head of the queue
DomJobSettled(q, r, j) ==
    LET r2 == r \ {j}
    IN  IF q # <<>> /\ HasFreeWorker(r2)
        THEN [queue |-> Tail(q), running |-> r2 \cup {DomStarted(Head(q))}]
        ELSE [queue |-> q, running |-> r2]

DomUnchanged ==
    UNCHANGED <<lastPost, acceptCount, totalIntercepted, lastBatchIntercepted,
                hadNewData, pendingNewPosts, dateBoundaryHit, listening,
                inflight, eofShown, obs, workers>>

\* launchBrowser and navigateTo answered; the scroll loop asks the generator
\* for its first batch
DomNavigateOk ==
    /\ pc = "dom_navigate"
    /\ pc' = "dom_next"
    /\ UNCHANGED <<processor, stats, scroller, queue, running, pageOpen, db>>
    /\ DomUnchanged

\* navigateTo raised: no handler surrounds it, run() raises
DomNavigateFails ==
    /\ pc = "dom_navigate"
    /\ pc' = "dom_raised"
    /\ UNCHANGED <<processor, stats, scroller, queue, running, pageOpen, db>>
    /\ DomUnchanged

\* scrollGen yields a batch of n new handles: stats.discovered += n and the
\* first handle is extracted
DomBatch(n, old) ==
    /\ pc = "dom_next"
    /\ scroller.batches < MaxCalls
    /\ pc' = "dom_extract"
    /\ scroller' = [handles |-> n, reachedOldBoundary |-> old,
                    batches |-> scroller.batches + 1]
    /\ stats' = [stats EXCEPT !.discovered = @ + n]
    /\ UNCHANGED <<processor, queue, running, pageOpen, db>>
    /\ DomUnchanged

\* scrollGen returned (end of feed, boundary, stable or page closed): the
\* loop ends and drainQueue is awaited
DomGenDone ==
    /\ pc = "dom_next"
    /\ pc' = "dom_drain"
    /\ UNCHANGED <<processor, stats, scroller, queue, running, pageOpen, db>>
    /\ DomUnchanged

\* scrollGen raised: the catch counts the error and drainQueue is awaited
DomGenRaises ==
    /\ pc = "dom_next"
    /\ pc' = "dom_drain"
    /\ stats' = [stats EXCEPT !.errors = @ + 1]
    /\ UNCHANGED <<processor, scroller, queue, running, pageOpen, db>>
    /\ DomUnchanged

\* where the loop goes after a handle: the next handle, the break on
\* reachedOldBoundary, or the next batch
AfterHandle ==
    IF scroller.handles > 1 THEN "dom_extract"
    ELSE IF scroller.reachedOldBoundary THEN "dom_drain"
    ELSE "dom_next"

\* extractPost answered with post: in-memory dedup, missing date, range,
\* checkpoint, then enqueuePost
DomExtracted(post) ==
    /\ pc = "dom_extract"
    /\ pc' = AfterHandle
    /\ scroller' = [scroller EXCEPT !.handles = @ - 1]
    /\ IF post.postIdentifier \in processor.processedIds
       THEN UNCHANGED <<processor, stats, queue, running>>
       ELSE /\ processor' = [processor EXCEPT
                  !.processedIds = @ \cup {post.postIdentifier}]
            /\ IF \/ post.publishedAt = NoDate
                  \/ ~isWithinRange(post.publishedAt, processor.startDate,
                                    processor.endDate)
                  \/ /\ processor.latestStoredDate # NoDate
                     /\ post.publishedAt <= processor.latestStoredDate
               THEN /\ stats' = [stats EXCEPT !.skipped = @ + 1]
                    /\ UNCHANGED <<queue, running>>
               ELSE /\ queue' = enqueuePost(queue, running, post).queue
                    /\ running' = enqueuePost(queue, running, post).running
                    /\ UNCHANGED stats
    /\ UNCHANGED <<pageOpen, db>>
    /\ DomUnchanged

\* extractPost raised: the error is counted and the loop continues
DomExtractRaises ==
    /\ pc = "dom_extract"
    /\ pc' = AfterHandle
    /\ scroller' = [scroller EXCEPT !.handles = @ - 1]
    /\ stats' = [stats EXCEPT !.errors = @ + 1]
    /\ UNCHANGED <<processor, queue, running, pageOpen, db>>
    /\ DomUnchanged

\* the rest of processPost after its last await, in one step: insertPost is
\* synchronous, a new row counts as processed, a raised error is counted,
\* and the job settles
DomInsert(j, st, raises) ==
    LET r == insertPost(db.posts, j.post, "null")
    IN  /\ db' = IF raises THEN db ELSE [db EXCEPT !.posts = r.posts]
        /\ stats' = IF raises THEN [st EXCEPT !.errors = @ + 1]
                    ELSE IF r.inserted THEN [st EXCEPT !.processed = @ + 1]
                    ELSE st
        /\ queue' = DomJobSettled(queue, running, j).queue
        /\ running' = DomJobSettled(queue, running, j).running

\* fetchImageAsBase64 answered: queryWithRetry is awaited
DomFetchOk(j) ==
    /\ j \in running
    /\ j.step = "fetch"
    /\ running' = (running \ {j}) \cup {[j EXCEPT !.step = "infer"]}
    /\ UNCHANGED <<pc, processor, stats, scroller, queue, pageOpen, db>>
    /\ DomUnchanged

\* fetchImageAsBase64 raised: the inference failure is counted and the post
\* is inserted without text
DomFetchFails(j, raises) ==
    /\ j \in running
    /\ j.step = "fetch"
    /\ DomInsert(j, [stats EXCEPT !.inferenceFails = @ + 1, !.errors = @ + 1],
                 raises)
    /\ UNCHANGED <<pc, processor, scroller, pageOpen>>
    /\ DomUnchanged

\* queryWithRetry answered or raised; the post is inserted
DomInferDone(j, ok, raises) ==
    /\ j \in running
    /\ j.step = "infer"
    /\ DomInsert(j, IF ok THEN [stats EXCEPT !.inferenceSuccesses = @ + 1]
                    ELSE [stats EXCEPT !.inferenceFails = @ + 1,
                                       !.errors = @ + 1],
                 raises)
    /\ UNCHANGED <<pc, processor, scroller, pageOpen>>
    /\ DomUnchanged

\* a post without an image URL: the job is the insert alone
DomInsertOnly(j, raises) ==
    /\ j \in running
    /\ j.step = "insert"
    /\ DomInsert(j, stats, raises)
    /\ UNCHANGED <<pc, processor, scroller, pageOpen>>
    /\ DomUnchanged

\* drainQueue settled: finalizeSession writes the counters, closeBrowser is
\* awaited
DomDrained ==
    /\ pc = "dom_drain"
    /\ queue = <<>> /\ running = {}
    /\ pc' = "dom_closing"
    /\ db' = [db EXCEPT !.session = "finalized",
                        !.counters = [processed |-> stats.processed,
                                      skipped |-> stats.skipped,
                                      errors |-> stats.errors]]
    /\ UNCHANGED <<processor, stats, scroller, queue, running, pageOpen>>
    /\ DomUnchanged

\* closeBrowser answered: getPostDateRange, db.close(), return summary
DomClosed ==
    /\ pc = "dom_closing"
    /\ pc' = "dom_returned"
    /\ pageOpen' = FALSE
    /\ db' = [db EXCEPT !.open = FALSE]
    /\ UNCHANGED <<processor, stats, scroller, queue, running>>
    /\ DomUnchanged

\* the posts extractPost can answer with: in range with and without an
\* image, too old, too new, undated
DomPosts == {p \in Posts : p.captionText = <<>>}

DomInit ==
    /\ lastPost = NoPost
    /\ acceptCount = [i \in Ids |-> 0]
    /\ pc = "dom_navigate"
    /\ totalIntercepted = 0
    /\ lastBatchIntercepted = 0
    /\ hadNewData = FALSE
    /\ pendingNewPosts = 0
    /\ dateBoundaryHit = FALSE
    /\ stats = ZeroDomStats
    /\ scroller = NoBatch
    /\ queue = <<>>
    /\ running = {}
    /\ listening = FALSE
    /\ inflight = 0
    /\ pageOpen = TRUE
    /\ eofShown = FALSE
    /\ obs = ZeroObs
    /\ workers \in 1..MaxWorkers
    /\ \E stored \in InitialStores \cup {{}} :
          /\ db = NewDb(stored)
          /\ processor = NewDomRun(2, 3, getLatestPublishedAt(stored))

DomNext ==
    \/ DomNavigateOk
    \/ DomNavigateFails
    \/ \E n \in 1..MaxIds, old \in BOOLEAN : DomBatch(n, old)
    \/ DomGenDone
    \/ DomGenRaises
    \/ \E post \in DomPosts : DomExtracted(post)
    \/ DomExtractRaises
    \/ \E j \in running : DomFetchOk(j)
    \/ \E j \in running, raises \in BOOLEAN : DomFetchFails(j, raises)
    \/ \E j \in running, ok \in BOOLEAN, raises \in BOOLEAN : DomInferDone(j, ok, raises)
    \/ \E j \in running, raises \in BOOLEAN : DomInsertOnly(j, raises)
    \/ DomDrained
    \/ DomClosed

DomSpec == DomInit /\ [][DomNext]_vars

\* --------------------------------------- handleResponse: carousel slides
MaxSlides == 3

NoUrl == <<>>
NoId == 0

\* node.carousel_media || node.sidecar_media, as what extractImageUrl finds
\* in each slide: the slide's own URL or null; the empty list also stands
\* for an absent field
SlideLists ==
    UNION {{[i \in 1..n |-> IF has[i] THEN <<"slide", i>> ELSE NoUrl] :
               has \in [1..n -> BOOLEAN]} : n \in 0..MaxSlides}

\* raw post nodes as findPostNodes returns them
Nodes == [id : {NoId} \cup Ids, imageUrl : {NoUrl, <<"parent">>},
          captionText : {<<>>, <<"A">>}, publishedAt : {NoDate} \cup Dates,
          slides : SlideLists]

\* `${post.postIdentifier}_c${idx + 1}`
SlideIdentifier(id, idx) == <<id, "_c", idx + 1>>

\* normalizePost: null without an identifier
normalizePost(node) ==
    IF node.id = NoId THEN NoPost
    ELSE [postIdentifier |-> <<node.id>>, imageUrl |-> node.imageUrl,
          captionText |-> node.captionText, publishedAt |-> node.publishedAt]

\* every slide post carries the parent's image URL
SlidePost_ParentImage(post, slides, idx) ==
    [post EXCEPT !.postIdentifier = SlideIdentifier(post.postIdentifier[1], idx)]

\* the object passed to onPost for the slide at idx (0-based)
SlidePost(post, slides, idx) ==
    [post EXCEPT
       !.postIdentifier = SlideIdentifier(post.postIdentifier[1], idx),
       !.imageUrl = IF slides[idx + 1] # NoUrl THEN slides[idx + 1]
                    ELSE post.imageUrl]

\* the onPost calls one iteration of the loop over the nodes makes, in order
EmittedFor(node) ==
    LET post == normalizePost(node)
    IN  IF post = NoPost THEN <<>>
        ELSE IF Len(node.slides) > 1
        THEN [k \in 1..Len(node.slides) |-> SlidePost(post, node.slides, k - 1)]
        ELSE <<post>>

\* one iteration of `for (const node of nodes)`: lastPost is the node and
\* queue the posts handed to onPost for it
NodeHandled(node) ==
    /\ lastPost' = node
    /\ queue' = EmittedFor(node)
    /\ UNCHANGED <<processor, acceptCount, pc, workers, totalIntercepted,
                   lastBatchIntercepted, hadNewData, pendingNewPosts,
                   dateBoundaryHit, stats, scroller, running, listening,
                   inflight, pageOpen, eofShown, db, obs>>

CarouselInit ==
    /\ InitCommon
    /\ workers = 1
    /\ db = NewDb({})
    /\ processor = NewProcessor(2, 3, NoDate, <<>>)

CarouselNext == \E node \in Nodes : NodeHandled(node)

CarouselSpec == CarouselInit /\ [][CarouselNext]_vars

\* ------------------------------------------- command line: the date window
MaxDay == 2
SlotsPerDay == 2

Days == 1..MaxDay

\* the instant `slot` steps after the midnight that starts calendar day `day`
Instant(day, slot) == day * SlotsPerDay + slot

DayOf(ts) == ts \div SlotsPerDay

\* parseCliDate: parseISO of a YYYY-MM-DD string is the midnight that starts
\* that day
parseCliDate(day) == Instant(day, 0)

CliPosts ==
    [postIdentifier : Ids,
     publishedAt : {Instant(d, s) : d \in Days, s \in 0..(SlotsPerDay - 1)},
     captionText : {<<>>}, hasMedia : {TRUE}]

\* the entry point parsed --start and --end, refused start > end, and run()
\* built the processor from the two dates
CliInit ==
    /\ InitCommon
    /\ workers = 1
    /\ db = NewDb({})
    /\ \E s \in Days, e \in Days :
          /\ ~(parseCliDate(s) > parseCliDate(e))
          /\ processor = NewProcessor(parseCliDate(s), parseCliDate(e), NoDate, <<>>)

CliNext == \E post \in CliPosts : ProcessCall(post)

CliSpec == CliInit /\ [][CliNext]_vars

\* ------------------------------------------------- isWithinRange, called
\* the arguments of a call: a date or null, and two dates as bounds
RangeArgs ==
    [date : {NoDate} \cup Dates \cup {MaxDate + 1}, startDate : Dates, endDate : Dates]

\* isWithinRange is called: lastPost keeps the arguments, hadNewData the
\* value returned
RangeCall(args) ==
    /\ totalIntercepted < MaxCalls
    /\ totalIntercepted' = totalIntercepted + 1
    /\ lastPost' = args
    /\ hadNewData' = isWithinRange(args.date, args.startDate, args.endDate)
    /\ UNCHANGED <<processor, acceptCount, pc, workers, lastBatchIntercepted,
                   pendingNewPosts, dateBoundaryHit, stats, scroller, queue,
                   running, listening, inflight, pageOpen, eofShown, db, obs>>

RangeInit ==
    /\ InitCommon
    /\ workers = 1
    /\ db = NewDb({})
    /\ processor = NewProcessor(2, 3, NoDate, <<>>)

RangeNext == \E args \in RangeArgs : RangeCall(args)

RangeSpec == RangeInit /\ [][RangeNext]_vars

\* ------------------------------------------- numeric timestamps to dates
MaxExp == 13
PARSE_DATE_MS_EXP == 12
EXTRACT_TIMESTAMP_MS_EXP == 10

\* the numbers m * 10^e with one significant digit
Nums == [m : 1..9, e : 0..MaxExp]

Times1000(n) == [n EXCEPT !.e = @ + 3]

\* n > 10^k
Above(n, k) == n.e > k \/ (n.e = k /\ n.m > 1)

NoInstant == [m |-> 0, e |-> 0]

\* isValid / isNaN(getTime()): a Date holds at most 8.64 * 10^15 ms
ValidDate(ms) == IF ms.e < 15 \/ (ms.e = 15 /\ ms.m <= 8) THEN ms ELSE NoInstant

\* the threshold of extractTimestamp in parseDate
parseDate_Threshold10(raw) ==
    ValidDate(IF Above(raw, EXTRACT_TIMESTAMP_MS_EXP) THEN raw ELSE Times1000(raw))

\* parseDate of a number, as milliseconds since the epoch:
\* num > 1e12 ? new Date(num) : fromUnixTime(num)
parseDate(raw) ==
    ValidDate(IF Above(raw, PARSE_DATE_MS_EXP) THEN raw ELSE Times1000(raw))

\* extractTimestamp of a numeric field:
\* val > 1e10 ? new Date(val) : new Date(val * 1000)
extractTimestamp(val) ==
    ValidDate(IF Above(val, EXTRACT_TIMESTAMP_MS_EXP) THEN val ELSE Times1000(val))

ParseFns == {"parseDate", "extractTimestamp"}

ApplyFn(fn, n) == IF fn = "parseDate" THEN parseDate(n) ELSE extractTimestamp(n)

\* one of the two functions is called with the number raw and with
\* 1000 * raw; lastPost keeps the argument and the two dates returned
DatePair(fn, raw) ==
    /\ lastPost' = [fn |-> fn, raw |-> raw, ofRaw |-> ApplyFn(fn, raw),
                    ofThousandfold |-> ApplyFn(fn, Times1000(raw))]
    /\ UNCHANGED <<processor, acceptCount, pc, workers, totalIntercepted,
                   lastBatchIntercepted, hadNewData, pendingNewPosts,
                   dateBoundaryHit, stats, scroller, queue, running, listening,
                   inflight, pageOpen, eofShown, db, obs>>

ParseInit ==
    /\ InitCommon
    /\ workers = 1
    /\ db = NewDb({})
    /\ processor = NewProcessor(2, 3, NoDate, <<>>)

ParseNext == \E fn \in ParseFns, raw \in Nums : DatePair(fn, raw)

ParseSpec == ParseInit /\ [][ParseNext]_vars

\* ------------------------------------------------- the worker pool alone
MaxAccepted == 3

\* the posts the filter accepts, named in the order of their acceptance
PoolPosts ==
    [postIdentifier : 1..MaxAccepted, publishedAt : {3}, captionText : {<<>>},
     hasMedia : BOOLEAN]

\* the processor accepts its next post and calls onValidPost with it
PoolAccept(post) ==
    /\ pendingNewPosts < MaxAccepted
    /\ post.postIdentifier = pendingNewPosts + 1
    /\ onValidPost(post)
    /\ UNCHANGED <<processor, lastPost, acceptCount, pc, workers,
                   totalIntercepted, lastBatchIntercepted, hadNewData,
                   dateBoundaryHit, stats, scroller, listening, inflight,
                   pageOpen, eofShown, db, obs>>

PoolInit ==
    /\ InitCommon
    /\ workers \in 1..MaxWorkers
    /\ db = NewDb({})
    /\ processor = NewProcessor(2, 3, NoDate, <<>>)

PoolNext ==
    \/ \E post \in PoolPosts : PoolAccept(post)
    \/ \E j \in running : DownloadOk(j)
    \/ \E j \in running : DownloadFails(j)
    \/ \E j \in running : InsertDone(j)
    \/ \E j \in running : InsertRaises(j)

PoolSpec == PoolInit /\ [][PoolNext]_vars

\* ------------------------------------ handleResponse: a node that throws
MaxNodes == 3

\* post nodes of a response body; normalizing a malformed node throws (a
\* null entry in its display resources, say)
BodyNodes == [id : Ids, malformed : BOOLEAN]

Bodies == UNION {[1..n -> BodyNodes] : n \in 1..MaxNodes}

\* position of the first node whose handling throws, past the end if none
FirstThrow(nodes) ==
    IF \E i \in 1..Len(nodes) : nodes[i].malformed
    THEN CHOOSE i \in 1..Len(nodes) :
            nodes[i].malformed /\ \A k \in 1..(i - 1) : ~nodes[k].malformed
    ELSE Len(nodes) + 1

\* the onPost calls of the loop over the nodes: the loop sits inside the
\* try of the whole handler, so the first throw ends it
EmittedUntilThrow(nodes) ==
    [i \in 1..(FirstThrow(nodes) - 1) |-> [postIdentifier |-> <<nodes[i].id>>]]

ResponseCount == IF lastPost = NoPost THEN 0 ELSE lastPost.responseCount

\* a qualifying response is handled to its end: lastPost keeps its nodes
\* and the response counter, queue the posts handed to onPost
BodyHandled(nodes) ==
    /\ ResponseCount < MaxCalls
    /\ lastPost' = [nodes |-> nodes, responseCount |-> ResponseCount + 1]
    /\ queue' = EmittedUntilThrow(nodes)
    /\ UNCHANGED <<processor, acceptCount, pc, workers, totalIntercepted,
                   lastBatchIntercepted, hadNewData, pendingNewPosts,
                   dateBoundaryHit, stats, scroller, running, listening,
                   inflight, pageOpen, eofShown, db, obs>>

HandlerInit ==
    /\ InitCommon
    /\ workers = 1
    /\ db = NewDb({})
    /\ processor = NewProcessor(2, 3, NoDate, <<>>)

HandlerNext == \E nodes \in Bodies : BodyHandled(nodes)

HandlerSpec == HandlerInit /\ [][HandlerNext]_vars

\* ------------------------------------------------------- findPostNodes
MAX_DEPTH == 12
MaxPrefix == 13
MaxTail == 3

\* A JSON value is a chain of nested containers, outermost first, each
\* with the next as its only child and the last holding a scalar: "arr" an
\* array, "obj" an object under an ordinary key, "node" an object that
\* holds its child under one of POST_NODE_HINTS, "post" an object that
\* looksLikePost accepts.
Kinds == {"arr", "obj", "node", "post"}

Tails == UNION {[1..n -> Kinds] : n \in 0..MaxTail}

Chains ==
    {[i \in 1..k |-> "obj"] \o t : k \in 0..MaxPrefix, t \in Tails}

\* looksLikePost(candidate) for the value at position i
looksLikePost(s, i) == i <= Len(s) /\ s[i] = "post"

\* the depth test is `depth >= 12`: one level less is searched
DepthExceeded_Early(depth) == depth >= MAX_DEPTH

\* depth > 12
DepthExceeded(depth) == depth > MAX_DEPTH

RECURSIVE findPostNodes(_, _, _)
\* findPostNodes(obj, depth) for the value at position i of chain s; the
\* result is the set of positions collected
findPostNodes(s, i, depth) ==
    IF DepthExceeded(depth) \/ i > Len(s) THEN {}
    ELSE IF s[i] = "arr"
    THEN IF i + 1 > Len(s) THEN {}
         ELSE LET candidate == IF s[i + 1] = "node" /\ i + 2 <= Len(s)
                               THEN i + 2 ELSE i + 1
              IN  IF looksLikePost(s, candidate) THEN {candidate}
                  ELSE findPostNodes(s, i + 1, depth + 1)
    ELSE findPostNodes(s, i + 1, depth + 1)

\* the search is run on a response body: lastPost keeps the body and the
\* positions returned
BodySearched(s) ==
    /\ lastPost = NoPost
    /\ lastPost' = [body |-> s, found |-> findPostNodes(s, 1, 0)]
    /\ UNCHANGED <<processor, acceptCount, pc, workers, totalIntercepted,
                   lastBatchIntercepted, hadNewData, pendingNewPosts,
                   dateBoundaryHit, stats, scroller, queue, running, listening,
                   inflight, pageOpen, eofShown, db, obs>>

SearchInit ==
    /\ InitCommon
    /\ workers = 1
    /\ db = NewDb({})
    /\ processor = NewProcessor(2, 3, NoDate, <<>>)

SearchNext == \E s \in Chains : BodySearched(s)

SearchSpec == SearchInit /\ [][SearchNext]_vars

\* ----------------------------------------------- which responses are read
MaxParts == 1

GQL_URL_PATTERNS ==
    {"/graphql", "/api/graphql", "/graphql/query", "/graph/query",
     "/graphql/v1", "/api/v1/feed", "/api/v2/feed", "/query"}

\* a URL is a sequence of path parts, some written with capitals
UrlParts == {"/graphql", "/GraphQL", "/api/", "/static"}

Urls == UNION {[1..n -> UrlParts] : n \in 0..MaxParts}

\* url.lowerCased()
lowerCased(url) ==
    [i \in 1..Len(url) |-> IF url[i] = "/GraphQL" THEN "/graphql" ELSE url[i]]

\* url.hasPart(p)
hasPart(url, p) == \E i \in 1..Len(url) : url[i] = p

\* the patterns are looked for in the URL as it was sent
isGraphQLResponse_CaseSensitive(url, method) ==
    /\ url # <<>>
    /\ \/ \E p \in GQL_URL_PATTERNS : hasPart(url, p)
       \/ method = "POST" /\ (hasPart(url, "/api/") \/ hasPart(url, "/query"))

isGraphQLResponse(url, method) ==
    /\ url # <<>>
    /\ LET lc == lowerCased(url)
       IN  \/ \E p \in GQL_URL_PATTERNS : hasPart(lc, p)
           \/ method = "POST" /\ (hasPart(lc, "/api/") \/ hasPart(lc, "/query"))

\* content-type header (absent: the empty string), status, and what
\* response.json() makes of the body: a throw, a value without post nodes,
\* a value with one
Responses ==
    [url : Urls, method : {"GET", "POST"},
     contentType : {"", "text/html", "application/json"},
     status : {199, 200, 299, 300},
     body : {"invalid", "plain", "post"}]

\* the response passes every test placed before responseCount++
Counted(r) ==
    /\ isGraphQLResponse(r.url, r.method)
    /\ r.contentType = "application/json"
    /\ ~(r.status < 200 \/ r.status >= 300)
    /\ r.body # "invalid"

\* one run of handleResponse: lastPost keeps the response and the response
\* counter, queue the posts handed to onPost for it
handleResponse(r) ==
    /\ (IF lastPost = NoPost THEN 0 ELSE lastPost.handled) < MaxCalls
    /\ LET count == IF lastPost = NoPost THEN 0 ELSE lastPost.responseCount
           handled == IF lastPost = NoPost THEN 0 ELSE lastPost.handled
       IN  /\ lastPost' = [response |-> r, handled |-> handled + 1,
                           responseCount |->
                              IF Counted(r) THEN count + 1 ELSE count]
           /\ queue' = IF Counted(r) /\ r.body = "post"
                       THEN <<[postIdentifier |-> <<1>>]>> ELSE <<>>
    /\ UNCHANGED <<processor, acceptCount, pc, workers, totalIntercepted,
                   lastBatchIntercepted, hadNewData, pendingNewPosts,
                   dateBoundaryHit, stats, scroller, running, listening,
                   inflight, pageOpen, eofShown, db, obs>>

GateInit ==
    /\ InitCommon
    /\ workers = 1
    /\ db = NewDb({})
    /\ processor = NewProcessor(2, 3, NoDate, <<>>)

GateNext == \E r \in Responses : handleResponse(r)

GateSpec == GateInit /\ [][GateNext]_vars

\* ------------------------------------- scrollUntilExhausted, new handles
MaxElems == 3
ID_SLICE == 1

NoCode == 0
NoSrc == <<>>
NoHandleId == <<>>

\* a post element as the page holds it: the shortcode of its post link
\* (NoCode: no such link) and the src of its image (NoSrc: no image)
Articles == [shortcode : {NoCode, 1}, src : {NoSrc, <<1, 1>>, <<1, 2>>, <<2, 1>>}]

\* src.slice(0, 120), the length scaled to ID_SLICE
Slice(src) == SubSeq(src, 1, ID_SLICE)

\* getHandleId(handle): NoHandleId when neither is there
getHandleId(article) ==
    IF article.shortcode # NoCode THEN <<"code", <<article.shortcode>>>>
    ELSE IF article.src # NoSrc THEN <<"src", Slice(article.src)>>
    ELSE NoHandleId

RECURSIVE NewHandles(_, _, _)
\* the loop over allHandles from position i on: the handles pushed, given
\* the ids seen so far
NewHandles(dom, i, seen) ==
    IF i > Len(dom) THEN <<>>
    ELSE LET id == getHandleId(dom[i])
         IN  IF id # NoHandleId /\ id \notin seen
             THEN <<i>> \o NewHandles(dom, i + 1, seen \cup {id})
             ELSE NewHandles(dom, i + 1, seen)

\* the ids are not recorded: seenIds stays as it was
SeenAfter_NotRecorded(dom, seen) == seen

\* seenIds after the loop over allHandles
SeenAfter(dom, seen) ==
    seen \cup ({getHandleId(dom[i]) : i \in 1..Len(dom)} \ {NoHandleId})

NewExhaust == [dom |-> <<>>, seenIds |-> {}, batches |-> <<>>, done |-> FALSE]

\* the feed renders one more post element
ArticleRendered(article) ==
    /\ ~lastPost.done
    /\ Len(lastPost.dom) < MaxElems
    /\ lastPost' = [lastPost EXCEPT !.dom = Append(@, article)]
    /\ UNCHANGED <<processor, acceptCount, pc, workers, totalIntercepted,
                   lastBatchIntercepted, hadNewData, pendingNewPosts,
                   dateBoundaryHit, stats, scroller, queue, running, listening,
                   inflight, pageOpen, eofShown, db, obs>>

\* one pass of the while loop that does not end at its top: the new
\* handles are found, yielded when there are any, and the loop ends after
\* the yield when one of them is older than the start date
ScrollChecked(boundary) ==
    /\ ~lastPost.done
    /\ Len(lastPost.batches) < MaxElems
    /\ LET newHandles == NewHandles(lastPost.dom, 1, lastPost.seenIds)
       IN  /\ boundary => newHandles # <<>>
           /\ lastPost' =
                 [lastPost EXCEPT
                     !.seenIds = SeenAfter(lastPost.dom, @),
                     !.batches = IF newHandles # <<>>
                                 THEN Append(@, newHandles) ELSE @,
                     !.done = boundary]
    /\ UNCHANGED <<processor, acceptCount, pc, workers, totalIntercepted,
                   lastBatchIntercepted, hadNewData, pendingNewPosts,
                   dateBoundaryHit, stats, scroller, queue, running, listening,
                   inflight, pageOpen, eofShown, db, obs>>

\* the loop ends at its top (end of feed) or on its stability count
ScrollExhausted ==
    /\ ~lastPost.done
    /\ lastPost' = [lastPost EXCEPT !.done = TRUE]
    /\ UNCHANGED <<processor, acceptCount, pc, workers, totalIntercepted,
                   lastBatchIntercepted, hadNewData, pendingNewPosts,
                   dateBoundaryHit, stats, scroller, queue, running, listening,
                   inflight, pageOpen, eofShown, db, obs>>

ExhaustInit ==
    /\ processor = NewProcessor(2, 3, NoDate, <<>>)
    /\ lastPost = NewExhaust
    /\ acceptCount = 0
    /\ pc = "dom_next"
    /\ workers = 1
    /\ totalIntercepted = 0
    /\ lastBatchIntercepted = 0
    /\ hadNewData = FALSE
    /\ pendingNewPosts = 0
    /\ dateBoundaryHit = FALSE
    /\ stats = ZeroRunStats
    /\ scroller = NewScroller
    /\ queue = <<>>
    /\ running = {}
    /\ listening = FALSE
    /\ inflight = 0
    /\ pageOpen = TRUE
    /\ eofShown = FALSE
    /\ db = NewDb({})
    /\ obs = [ticksSinceBoundary |-> 0, verdictsSinceEmit |-> 0,
              addedAfterLoop |-> 0, finalizeCalled |-> FALSE,
              unfinishedAtFinalize |-> 0]

ExhaustNext ==
    \/ \E article \in Articles : ArticleRendered(article)
    \/ \E boundary \in BOOLEAN : ScrollChecked(boundary)
    \/ ScrollExhausted

ExhaustSpec == ExhaustInit /\ [][ExhaustNext]_vars

\* ------------------------------------------- JSON-file backend, insertPost
MaxCallers == 3

Callers == 1..MaxCallers

\* the find is skipped: nothing is ever taken to exist
Exists_Never(posts, id) == FALSE

\* db.posts.find(p => p.post_identifier === postData.postIdentifier)
Exists(posts, id) == \E k \in 1..Len(posts) : posts[k] = id

\* db.posts of a new file, and no insertPost call made yet
NewJsonDb == [posts |-> <<>>, calls |-> [c \in Callers |-> [id |-> NoId, at |-> "idle"]]]

\* a job calls insertPost: the find and the push run without a break, then
\* the call suspends at await saveDb(); a record found returns false at once
InsertCalled(c, id) ==
    /\ lastPost.calls[c].at = "idle"
    /\ lastPost' =
          IF Exists(lastPost.posts, id)
          THEN [lastPost EXCEPT !.calls[c] = [id |-> id, at |-> "false"]]
          ELSE [lastPost EXCEPT !.posts = Append(@, id),
                                !.calls[c] = [id |-> id, at |-> "saving"]]
    /\ UNCHANGED <<processor, acceptCount, pc, workers, totalIntercepted,
                   lastBatchIntercepted, hadNewData, pendingNewPosts,
                   dateBoundaryHit, stats, scroller, queue, running, listening,
                   inflight, pageOpen, eofShown, db, obs>>

\* fs.writeFile resolves: insertPost returns true
SaveDone(c) ==
    /\ lastPost.calls[c].at = "saving"
    /\ lastPost' = [lastPost EXCEPT !.calls[c].at = "true"]
    /\ UNCHANGED <<processor, acceptCount, pc, workers, totalIntercepted,
                   lastBatchIntercepted, hadNewData, pendingNewPosts,
                   dateBoundaryHit, stats, scroller, queue, running, listening,
                   inflight, pageOpen, eofShown, db, obs>>

\* fs.writeFile rejects: insertPost rejects, the pushed record stays
SaveFails(c) ==
    /\ lastPost.calls[c].at = "saving"
    /\ lastPost' = [lastPost EXCEPT !.calls[c].at = "raised"]
    /\ UNCHANGED <<processor, acceptCount, pc, workers, totalIntercepted,
                   lastBatchIntercepted, hadNewData, pendingNewPosts,
                   dateBoundaryHit, stats, scroller, queue, running, listening,
                   inflight, pageOpen, eofShown, db, obs>>

JsonInit ==
    /\ processor = NewProcessor(2, 3, NoDate, <<>>)
    /\ lastPost = NewJsonDb
    /\ acceptCount = 0
    /\ pc = "loop"
    /\ workers = MaxCallers
    /\ totalIntercepted = 0
    /\ lastBatchIntercepted = 0
    /\ hadNewData = FALSE
    /\ pendingNewPosts = 0
    /\ dateBoundaryHit = FALSE
    /\ stats = ZeroRunStats
    /\ scroller = NewScroller
    /\ queue = <<>>
    /\ running = {}
    /\ listening = FALSE
    /\ inflight = 0
    /\ pageOpen = TRUE
    /\ eofShown = FALSE
    /\ db = NewDb({})
    /\ obs = [ticksSinceBoundary |-> 0, verdictsSinceEmit |-> 0,
              addedAfterLoop |-> 0, finalizeCalled |-> FALSE,
              unfinishedAtFinalize |-> 0]

JsonNext ==
    \/ \E c \in Callers, id \in Ids : InsertCalled(c, id)
    \/ \E c \in Callers : SaveDone(c)
    \/ \E c \in Callers : SaveFails(c)

JsonSpec == JsonInit /\ [][JsonNext]_vars

\* ================================================================== claims
Called == processor'.stats.total = processor.stats.total + 1

\* position of the first rule of the fixed order that the post violates,
\* 7 when it violates none
FirstViolated(pr, post) ==
    LET v == <<IsDuplicate(pr, post), HasNoDate(post), IsTooNew(pr, post),
               IsTooOld(pr, post), IsArchived(pr, post), KeywordMismatch(pr, post),
               TRUE>>
    IN  CHOOSE i \in 1..7 : v[i] /\ \A j \in 1..(i - 1) : ~v[j]

\* the counters each outcome alone adds to, besides total
CountersOf(i) ==
    <<{"noDup"}, {"noDate"}, {"tooNew", "skipped"}, {"tooOld", "skipped"},
      {"skipped"}, {"noKeyword", "skipped"}, {"inRange"}>>[i]

StatNames == {"inRange", "skipped", "tooOld", "tooNew", "noDate", "noDup", "noKeyword"}

\* C1: every process() call records the outcome of the first violated rule of
\* the order duplicate, no-date, too-new, too-old, already-archived,
\* keyword-mismatch, and nothing of any later rule: exactly that rule's
\* counters advance, the boundary flag is set only by too-old, and a
\* duplicate leaves the seen set as it was.
C1_FirstRuleDecides ==
    [][Called =>
        LET i == FirstViolated(processor, lastPost')
        IN  /\ \A f \in StatNames :
                processor'.stats[f] =
                    processor.stats[f] + (IF f \in CountersOf(i) THEN 1 ELSE 0)
            /\ processor'.belowBoundary = (i = 4)
            /\ (i = 1) => processor'.seenIds = processor.seenIds
            /\ (acceptCount' # acceptCount) = (i = 7)]_vars

\* a post that is both a duplicate and undated was counted as duplicate, after
\* its first sighting was counted as no-date
C1_Witness ==
    /\ lastPost.postIdentifier # 0
    /\ lastPost.publishedAt = NoDate
    /\ processor.stats.noDate = 1
    /\ processor.stats.noDup = 1

C3_AcceptedOncePerId == \A i \in Ids : acceptCount[i] <= 1

\* an accepted identifier came again with fields that pass every other rule
C3_Witness ==
    /\ lastPost.postIdentifier # 0
    /\ acceptCount[lastPost.postIdentifier] = 1
    /\ processor.stats.noDup > 0
    /\ FirstViolated([processor EXCEPT !.seenIds = {}], lastPost) = 7

AllFalse(r) == \A k \in 1..Len(r) : ~r[k]

\* C4: the driver returns on receiving the third consecutive empty report,
\* with no page operation in between; a report of new content resets the
\* count, and nothing short of three consecutive empty reports makes the
\* driver stop for stabilization.
C4_StopsAtThirdEmptyReport ==
    /\ scroller.stableCount <= MAX_STABLE_ITERS
    /\ (Len(scroller.reports) = MAX_STABLE_ITERS /\ AllFalse(scroller.reports)) =>
          /\ scroller.pc = "done"
          /\ scroller.why = "stable"
          /\ scroller.ops = 0
    /\ scroller.why = "stable" =>
          Len(scroller.reports) = MAX_STABLE_ITERS /\ AllFalse(scroller.reports)
    /\ (scroller.reports # <<>> /\ scroller.reports[Len(scroller.reports)]) =>
          scroller.stableCount = 0

\* the driver stopped for stabilization in a run that had received posts
C4_Witness ==
    /\ scroller.pc = "done"
    /\ scroller.why = "stable"
    /\ totalIntercepted > 0

\* C5: finalizeSession is invoked only when no accepted post's job is still
\* queued or running.
C5_FinalizeWhenIdle == obs.finalizeCalled => obs.unfinishedAtFinalize = 0

\* C6: no job is added to the worker pool once the scroll loop has exited.
C6_NoJobAfterLoopExit == obs.addedAfterLoop = 0

\* C7: the jobs started and not finished never outnumber the configured
\* worker count.
C7_RunningWithinWorkers == Cardinality(running) <= workers

\* the pool is full and an accepted post waits in the queue
C7_Witness == Cardinality(running) = workers /\ queue # <<>>

C9_AtMostOneTickAfterBoundary == obs.ticksSinceBoundary <= 1

\* C9 as amended: once a too-old post has set dateBoundaryHit it stays set,
\* the loop breaks as soon as a tick requested inside the loop returns, and
\* at most two scroll ticks (the priming tick, which no boundary test
\* follows, and the first loop tick) are started after the detection.
C9_StopsAtBoundary ==
    /\ [](obs.ticksSinceBoundary <= 2)
    /\ [][dateBoundaryHit => dateBoundaryHit']_vars
    /\ [][(pc = "await_tick" /\ dateBoundaryHit /\ pc' # pc) => pc' = "drain"]_vars

\* the loop was broken by the boundary although an in-range post was
\* accepted after the too-old one
C9_Witness ==
    /\ pc = "drain"
    /\ scroller.pc = "yielded"
    /\ dateBoundaryHit
    /\ processor.stats.tooOld = 1
    /\ processor.stats.inRange = 1
    /\ lastPost.publishedAt = 3
    /\ obs.addedAfterLoop = 0

\* C10: every job in the worker pool, waiting or running, and every stored
\* post carries a non-null publishedAt.
C10_NoUndatedPostInPool ==
    /\ \A k \in 1..Len(queue) : queue[k].publishedAt # NoDate
    /\ \A j \in running : j.post.publishedAt # NoDate
    /\ \A p \in db.posts : p.publishedAt # NoDate

\* an undated post was rejected while the job of a dated one is in the pool
C10_Witness ==
    /\ processor.stats.noDate > 0
    /\ \E j \in running : j.step = "insert"

\* the caption holds one of the keywords, letter case aside
CaptionHasKeyword(pr, post) ==
    \E i \in 1..Len(pr.keywords) :
        includes(toLowerCase(post.captionText), toLowerCase(pr.keywords[i]))

InWindow(pr, post) ==
    /\ post.publishedAt # NoDate
    /\ pr.startDate <= post.publishedAt
    /\ post.publishedAt <= pr.endDate

\* C11: a process() call hands its post to the acceptance callback exactly
\* when the identifier is new, start <= publishedAt <= end (both inclusive),
\* publishedAt is after the checkpoint if one is set, and the keyword list is
\* empty or the caption holds one of the keywords case-insensitively.
C11_AcceptedPostsQualify ==
    [][Called =>
        LET post == lastPost'
        IN  (acceptCount' # acceptCount) =
               /\ post.postIdentifier \notin processor.seenIds
               /\ InWindow(processor, post)
               /\ (processor.latestStoredDate # NoDate =>
                      post.publishedAt > processor.latestStoredDate)
               /\ (Len(processor.keywords) > 0 => CaptionHasKeyword(processor, post))]_vars

\* with a checkpoint set, a second post was accepted: it is dated exactly
\* end and matched a keyword that differs from its caption in letter case
C11_Witness ==
    /\ lastPost.postIdentifier # 0
    /\ lastPost.publishedAt = processor.endDate
    /\ processor.stats.inRange = 2
    /\ processor.latestStoredDate # NoDate
    /\ Len(processor.keywords) > 0
    /\ ~ \E i \in 1..Len(processor.keywords) :
            includes(lastPost.captionText, processor.keywords[i])

\* the call was decided by the already-archived rule alone
CountedArchived ==
    /\ processor'.stats.skipped = processor.stats.skipped + 1
    /\ \A f \in StatNames \ {"skipped"} : processor'.stats[f] = processor.stats[f]

\* C12: a post that passes the duplicate, no-date and date-window rules is
\* rejected as already archived exactly when a checkpoint is set and
\* publishedAt <= checkpoint; with no checkpoint the rule rejects nothing.
C12_ArchivedAtOrBeforeCheckpoint ==
    [][Called =>
        LET post == lastPost'
        IN  (post.postIdentifier \notin processor.seenIds /\ InWindow(processor, post)) =>
               CountedArchived =
                  /\ processor.latestStoredDate # NoDate
                  /\ post.publishedAt <= processor.latestStoredDate]_vars

\* a post dated exactly at the checkpoint was rejected as already archived
C12_Witness ==
    /\ lastPost.postIdentifier # 0
    /\ lastPost.publishedAt = processor.latestStoredDate
    /\ InWindow(processor, lastPost)
    /\ processor.stats.total = 1
    /\ processor.stats.skipped = 1
    /\ processor.stats.tooOld = 0
    /\ processor.stats.tooNew = 0
    /\ processor.stats.noKeyword = 0

\* C13: every post rejected by the already-archived rule has its identifier
\* in the datastore.
C13_ArchivedOnlyIfStored ==
    [][(Called /\ CountedArchived) =>
          lastPost'.postIdentifier \in StoredIds(db.posts)]_vars

\* the job j ended in this step with insertPost having answered
InsertAnswered(j) ==
    /\ j.step = "insert"
    /\ j \notin running'
    /\ stats'.errors = stats.errors

RecordOf(j) == [postIdentifier |-> j.post.postIdentifier,
                publishedAt |-> j.post.publishedAt,
                imagePath |-> j.imagePath]

DownloadGaveUp(j) ==
    /\ j.step = "download"
    /\ j \notin running'
    /\ stats'.images = stats.images

\* C15: when the download of an accepted post has failed for good, its job
\* goes on to insertPost with a null media path and counts exactly one image
\* failure and one error; run() stays where it is, and every other job,
\* queued or running, is left as it was.
C15_FailedDownloadStillPersists ==
    [][\A j \in running : DownloadGaveUp(j) =>
          /\ running' = (running \ {j}) \cup {[j EXCEPT !.step = "insert"]}
          /\ j.imagePath = "null"
          /\ queue' = queue
          /\ stats'.imageFails = stats.imageFails + 1
          /\ stats'.errors = stats.errors + 1
          /\ stats'.processed = stats.processed
          /\ pc' = pc]_vars

\* the run returned its summary with one failed download counted, no other
\* error, and the post of another job stored
C15_Witness ==
    /\ pc = "returned"
    /\ stats.imageFails = 1
    /\ stats.errors = 1
    /\ stats.processed = 1
    /\ Idle

Min(a, b) == IF a < b THEN a ELSE b

InsertEnded(j) == j.step = "insert" /\ j \notin running'

\* C17: a job whose insertPost raises counts exactly one error and does not
\* count or store the post; one whose insertPost answers false (identifier
\* already stored) changes no counter; one whose insertPost answers true
\* counts the post as processed; in every case run() stays where it is and
\* the other running jobs go on.
C17_InsertErrorsCounted ==
    [][\A j \in running : InsertEnded(j) =>
          /\ pc' = pc
          /\ running \ {j} \subseteq running'
          /\ IF stats'.errors # stats.errors
             THEN /\ stats' = [stats EXCEPT !.errors = @ + 1]
                  /\ db'.posts = db.posts
             ELSE IF j.post.postIdentifier \in StoredIds(db.posts)
             THEN stats' = stats
             ELSE stats' = [stats EXCEPT !.processed = @ + 1]]_vars

\* the run returned after two jobs: the insert of one raised, the insert of
\* the other answered false for a stored identifier
C17_Witness ==
    /\ pc = "returned"
    /\ \A i \in 1..2 : acceptCount[i] = 1
    /\ Idle
    /\ stats.errors = 1
    /\ stats.imageFails = 0
    /\ stats.processed = 0
    /\ db.posts = {[postIdentifier |-> 1, publishedAt |-> 2, imagePath |-> "null"]}

\* positions of run() on the navigation-failure path
NavFailed == {"nav_closing_browser", "nav_closing_db", "nav_raised", "nav_close_raised"}

C19_SessionFinalizedOnNavFailure ==
    pc = "nav_raised" => db.session = "finalized"

\* C20: once navigation has succeeded, run() never raises.
C20_NeverRaisesAfterNavigation == pc # "raised"

\* C21: the live page is never driven from two call sites at once: while
\* the scroll generator or the extraction of a handle is awaiting a page
\* operation, no job of the worker pool is fetching an image through the
\* page
C21_PageNeverShared == ~(LoopOnPage /\ \E j \in running : JobOnPage(j))

\* C22: the session is final once finalizeSession has been called: from then
\* on no insertPost of the run is executed and the processed, skipped and
\* error counts of the run no longer change
C22_NothingAfterFinalize ==
    [][(obs.finalizeCalled) =>
          (/\ ~(\E j \in running : InsertDone(j))
           /\ stats'.processed = stats.processed
           /\ stats'.errors = stats.errors
           /\ processor'.stats.skipped = processor.stats.skipped)]_vars

\* the node of the latest iteration is a carousel of two or more slides
IsCarousel == lastPost # NoPost /\ lastPost.id # NoId /\ Len(lastPost.slides) > 1

\* the posts emitted for the node are one per slide, in slide order, with the
\* identifiers <parent>_c1 .. <parent>_cN and the parent's caption and date
OnePostPerSlide ==
    /\ Len(queue) = Len(lastPost.slides)
    /\ \A k \in 1..Len(queue) :
          /\ queue[k].postIdentifier = <<lastPost.id, "_c", k>>
          /\ queue[k].captionText = lastPost.captionText
          /\ queue[k].publishedAt = lastPost.publishedAt

\* the node is emitted once, under its own identifier
OnePostUnsuffixed ==
    /\ Len(queue) = 1
    /\ queue[1].postIdentifier = <<lastPost.id>>
    /\ queue[1].captionText = lastPost.captionText
    /\ queue[1].publishedAt = lastPost.publishedAt
    /\ queue[1].imageUrl = lastPost.imageUrl

C24_WholeEndDayInWindow ==
    [][Called =>
        LET post == lastPost'
        IN  (DayOf(post.publishedAt) \in
                DayOf(processor.startDate)..DayOf(processor.endDate)) =>
               /\ processor'.stats.tooNew = processor.stats.tooNew
               /\ processor'.stats.tooOld = processor.stats.tooOld]_vars

\* C25: isWithinRange is the closed-interval test: true exactly when
\* start <= instant <= end, so true at either bound and false one unit
\* outside, and false for a null instant whatever the bounds
C25_ClosedInterval ==
    totalIntercepted > 0 =>
       /\ hadNewData = (/\ lastPost.date # NoDate
                        /\ lastPost.startDate <= lastPost.date
                        /\ lastPost.date <= lastPost.endDate)
       /\ lastPost.date = NoDate => ~hadNewData
       /\ (lastPost.startDate <= lastPost.endDate
             /\ lastPost.date \in {lastPost.startDate, lastPost.endDate})
          => hadNewData
       /\ lastPost.date \in {lastPost.startDate - 1, lastPost.endDate + 1}
          => ~hadNewData

\* a call with the instant equal to the end of a window of more than one
\* instant answered true
C25_Witness ==
    /\ totalIntercepted > 0
    /\ lastPost.startDate < lastPost.endDate
    /\ lastPost.date = lastPost.endDate
    /\ hadNewData

\* a number was parsed by fn
Parsed(fn) == lastPost # NoPost /\ lastPost.fn = fn

\* the date fn returned is the argument read as milliseconds above 10^k and
\* as seconds otherwise
ThresholdIs(k) ==
    lastPost.ofRaw =
       ValidDate(IF Above(lastPost.raw, k) THEN lastPost.raw
                 ELSE Times1000(lastPost.raw))

TickOrder ==
    {<<"unstarted", "check_eof">>, <<"check_eof", "scroll">>,
     <<"check_eof", "done">>, <<"scroll", "mouse">>, <<"mouse", "netidle">>,
     <<"netidle", "pause">>, <<"pause", "yielded">>, <<"pause", "done">>,
     <<"yielded", "check_eof">>, <<"yielded", "done">>}

\* page operations issued in the current tick when the driver is at a position
OpsBefore(p) ==
    CASE p = "check_eof" -> {0}
      [] p = "scroll"    -> {1}
      [] p = "mouse"     -> {2}
      [] p = "netidle"   -> {3}
      [] p = "pause"     -> {4}
      [] p = "yielded"   -> {5}
      [] OTHER           -> 0..5

\* C27: a tick of driveScroll runs end-of-feed check, scroll, mouse move,
\* network-idle wait, settle pause, yield, in this order; with the
\* end-of-feed indicator shown it stops before the scroll; after the yield
\* it does nothing on the page until run() has handed it the verdict
C27_TickOrder ==
    [][(scroller' # scroller) =>
          /\ <<scroller.pc, scroller'.pc>> \in TickOrder
          /\ scroller.ops \in OpsBefore(scroller.pc)
          /\ scroller'.ops \in OpsBefore(scroller'.pc)
          /\ (scroller.pc = "check_eof" /\ pageOpen /\ eofShown)
                => (scroller'.pc = "done" /\ scroller'.ops = 1)
          /\ (scroller.pc = "yielded")
                => /\ pc \in {"await_prime", "await_tick"}
                   /\ pc' = "await_tick"
                   /\ scroller'.reports = LastReports(scroller.reports, hadNewData')
                   /\ scroller'.ops = 0]_vars

\* the driver has yielded its second tick after all five page operations
C27_Witness ==
    /\ scroller.pc = "yielded"
    /\ scroller.ops = 5
    /\ Len(scroller.reports) = 1

\* C28: driveScroll never raises: with the page closed every page call of
\* the tick fails, the end-of-feed query counts as no signal and the tick
\* goes on to the pause, whose failure ends the generator normally; the
\* closed page is never yielded as a tick and run() does not raise while it
\* awaits the generator
C28_ErrorsSwallowed ==
    [][/\ (scroller' # scroller /\ ~pageOpen) =>
             /\ scroller'.pc # "yielded"
             /\ scroller.pc = "check_eof" => scroller'.pc = "scroll"
             /\ scroller.pc = "scroll" => scroller'.pc = "mouse"
             /\ scroller.pc = "mouse" => scroller'.pc = "netidle"
             /\ scroller.pc = "netidle" => scroller'.pc = "pause"
             /\ scroller.pc = "pause" =>
                   (scroller'.pc = "done" /\ scroller'.why = "closed")
       /\ (pc \in {"await_prime", "await_tick"}) =>
             (pc' \in {"await_prime", "await_tick", "drain"})]_vars

\* the page closed during a tick, the end-of-feed text being shown, and the
\* generator ended at the pause
C28_Witness ==
    /\ ~pageOpen
    /\ eofShown
    /\ scroller.pc = "done"
    /\ scroller.why = "closed"
    /\ pc = "await_tick"

\* run() computes a verdict in this step
VerdictStep == obs'.verdictsSinceEmit = obs.verdictsSinceEmit + 1

\* the interceptor has emitted a post since the previous verdict
EmittedSinceVerdict == totalIntercepted > 0 /\ obs.verdictsSinceEmit = 0

\* C29: the verdict handed to the scroll driver is true exactly when the
\* interceptor emitted a post since the previous verdict, whatever the
\* filter made of it; so the stable count goes back to zero after a tick in
\* which only rejected posts arrived and advances by one after a tick
\* without posts
C29_VerdictCountsEveryPost ==
    [][VerdictStep =>
          /\ hadNewData' = EmittedSinceVerdict
          /\ scroller.pc = "yielded" =>
                scroller'.stableCount =
                   IF EmittedSinceVerdict THEN 0 ELSE scroller.stableCount + 1]_vars

\* after a tick without posts, a tick brought only a rejected post and the
\* verdict for it was true: the stable count is back at zero
C29_Witness ==
    /\ hadNewData
    /\ obs.verdictsSinceEmit = 1
    /\ Len(scroller.reports) = 2
    /\ ~scroller.reports[1]
    /\ scroller.stableCount = 0
    /\ totalIntercepted > 0
    /\ processor.stats.inRange = 0

\* C30: when run() has closed the datastore connection and re-raises after a
\* failed navigation, no job for a post intercepted during the navigation
\* is still queued or running
C30_NoJobLeftOnNavFailure ==
    pc = "nav_raised" => (queue = <<>> /\ running = {})

\* identifiers of the accepted posts whose job has been started
StartedIds ==
    (1..pendingNewPosts) \ {queue[i].postIdentifier : i \in 1..Len(queue)}

\* C31: jobs are started in the order of acceptance: the job started next
\* is that of the earliest accepted post not yet started; with one worker
\* insertPost is called for a post only when every post accepted before it
\* has had its call and none accepted after it has
C31_JobsStartInAcceptanceOrder ==
    /\ [][\A j \in running' :
             (j.post.postIdentifier \notin StartedIds) =>
                j.post.postIdentifier = Cardinality(StartedIds) + 1]_vars
    /\ [][\A j \in running :
             (workers = 1 /\ j.step = "insert" /\ j \notin running') =>
                /\ StartedIds = 1..j.post.postIdentifier
                /\ running = {j}
                /\ \A p \in db.posts : p.postIdentifier < j.post.postIdentifier]_vars

\* one worker: the first post is stored, the job of the second is running
\* and the third waits
C31_Witness ==
    /\ workers = 1
    /\ pendingNewPosts = 3
    /\ StoredIds(db.posts) = {1}
    /\ \E j \in running : j.post.postIdentifier = 2
    /\ Len(queue) = 1
    /\ queue[1].postIdentifier = 3

\* the nodes of the latest response that can be normalized, in order
SoundNodes == SelectSeq(lastPost.nodes, LAMBDA n : ~n.malformed)

\* C32: a node whose handling fails is skipped alone: every other node of
\* the same response is still emitted, in order
C32_OnlyFailingNodeSkipped ==
    lastPost # NoPost =>
       queue = [i \in 1..Len(SoundNodes) |-> [postIdentifier |-> <<SoundNodes[i].id>>]]

\* positions of the post-like objects of the body searched
PostsAt == {p \in 1..Len(lastPost.body) : lastPost.body[p] = "post"}

First(S) == CHOOSE p \in S : \A q \in S : p <= q

\* post-like objects that are an item of an array, or the hinted child of
\* such an item, the array lying at most 12 levels below the root
ItemPostsAt ==
    {p \in PostsAt :
        \/ p >= 2 /\ lastPost.body[p - 1] = "arr" /\ p - 2 <= 12
        \/ /\ p >= 3
           /\ lastPost.body[p - 1] = "node"
           /\ lastPost.body[p - 2] = "arr"
           /\ p - 3 <= 12}

\* C33 as stated: the outermost post-like object is collected, without
\* being descended into, unless it lies more than 12 levels below the
\* root; nothing deeper than 12 levels is inspected
C33_CutoffAtTwelveLevels ==
    lastPost # NoPost =>
       lastPost.found =
          IF PostsAt # {} /\ First(PostsAt) - 1 <= 12
          THEN {First(PostsAt)} ELSE {}

\* C33 amended: the search ends on every body; findPostNodes is not called
\* more than 12 levels below the root, so the items of an array at level 12
\* (level 13) and their hinted children (level 14) are still tested; only
\* an array item or its hinted child is tested and collected, and a
\* collected object is not descended into; a post-like object reached as a
\* property value is descended into and not collected
C33_CutoffAtTwelveCalls ==
    lastPost # NoPost =>
       lastPost.found =
          IF ItemPostsAt # {} /\ First(ItemPostsAt) = First(
                {p \in PostsAt :
                    \/ p >= 2 /\ lastPost.body[p - 1] = "arr"
                    \/ p >= 3 /\ lastPost.body[p - 1] = "node"
                              /\ lastPost.body[p - 2] = "arr"})
          THEN {First(ItemPostsAt)} ELSE {}

\* a post-like object 14 levels below the root, the hinted child of an item
\* of an array at level 12, was collected
C33_Witness ==
    /\ lastPost # NoPost
    /\ Len(lastPost.body) = 15
    /\ lastPost.body[13] = "arr"
    /\ lastPost.found = {15}

CountBefore == IF lastPost = NoPost THEN 0 ELSE lastPost.responseCount

\* the conditions of C34, the URL taken as it was sent
QualifiesAsSent(r) ==
    /\ \/ \E p \in GQL_URL_PATTERNS : hasPart(r.url, p)
       \/ r.method = "POST" /\ (hasPart(r.url, "/api/") \/ hasPart(r.url, "/query"))
    /\ r.contentType = "application/json"
    /\ r.status \in 200..299

\* the same with the URL lower-cased first
QualifiesLowered(r) ==
    /\ \/ \E p \in GQL_URL_PATTERNS : hasPart(lowerCased(r.url), p)
       \/ /\ r.method = "POST"
          /\ \/ hasPart(lowerCased(r.url), "/api/")
             \/ hasPart(lowerCased(r.url), "/query")
    /\ r.contentType = "application/json"
    /\ r.status \in 200..299

\* C34 as stated: a response is inspected (counted, its posts emitted)
\* exactly when its URL, as sent, matches, its content-type contains json
\* and its status is 200..299; any other leaves the counter alone and emits
\* nothing
C34_InspectedIffQualifies ==
    [][(lastPost' # lastPost) =>
          (/\ QualifiesAsSent(lastPost'.response)
                 <=> (lastPost'.responseCount = CountBefore + 1)
           /\ ~QualifiesAsSent(lastPost'.response)
                 => (queue' = <<>> /\ lastPost'.responseCount = CountBefore))]_vars

\* C34 amended: the URL is matched after lower-casing, and a qualifying
\* response is counted and searched only when its body parses as JSON;
\* every other response leaves the counter alone and emits nothing
C34_InspectedIffQualifiesAndParses ==
    [][(lastPost' # lastPost) =>
          (/\ (QualifiesLowered(lastPost'.response)
                  /\ lastPost'.response.body # "invalid")
                 <=> (lastPost'.responseCount = CountBefore + 1)
           /\ ~(QualifiesLowered(lastPost'.response)
                  /\ lastPost'.response.body # "invalid")
                 => (queue' = <<>> /\ lastPost'.responseCount = CountBefore))]_vars

\* a response was counted and its post emitted after one that was set aside
C34_Witness ==
    /\ lastPost # NoPost
    /\ lastPost.handled = 2
    /\ lastPost.responseCount = 1
    /\ lastPost.response.url = <<"/GraphQL">>
    /\ queue # <<>>

\* the batches an element of the page was yielded in, with its place there
YieldsOf(i) ==
    {bk \in (1..Len(lastPost.batches)) \X (1..MaxElems + 1) :
        /\ bk[2] <= Len(lastPost.batches[bk[1]])
        /\ lastPost.batches[bk[1]][bk[2]] = i}

\* C35: over all batches of scrollUntilExhausted each post element is
\* yielded at most once, an element without a derivable identity never,
\* and no batch is empty
C35_EachElementYieldedOnce ==
    /\ \A i \in 1..Len(lastPost.dom) :
          /\ Cardinality(YieldsOf(i)) <= 1
          /\ getHandleId(lastPost.dom[i]) = NoHandleId => YieldsOf(i) = {}
    /\ \A b \in 1..Len(lastPost.batches) : lastPost.batches[b] # <<>>

\* two checks yielded a batch each, the second without the elements of the
\* first, and an element without identity stayed behind
C35_Witness ==
    /\ Len(lastPost.batches) = 2
    /\ Len(lastPost.dom) = 3
    /\ \E i \in 1..3 : getHandleId(lastPost.dom[i]) = NoHandleId
    /\ lastPost.batches[1] = <<1>>
    /\ lastPost.batches[2] = <<3>>

\* C36: every process() call leaves its post's identifier in the seen set,
\* whatever the outcome, and an identifier that is seen and was not
\* accepted is never accepted afterwards
C36_FirstSightingIsFinal ==
    [][/\ Called => lastPost'.postIdentifier \in processor'.seenIds
       /\ \A i \in Ids :
             (i \in processor.seenIds /\ acceptCount[i] = 0) => acceptCount'[i] = 0]_vars

\* an identifier rejected on its first sighting came again with fields
\* that pass every other rule, and was counted as a duplicate
C36_Witness ==
    /\ lastPost.postIdentifier # 0
    /\ acceptCount[lastPost.postIdentifier] = 0
    /\ processor.stats.total = 2
    /\ processor.stats.noDup = 1
    /\ processor.stats.inRange = 0
    /\ FirstViolated([processor EXCEPT !.seenIds = {}], lastPost) = 7

\* uniqueSeen: seenIds.size
uniqueSeen(pr) == Cardinality(pr.seenIds)

RECURSIVE SumOver(_, _)
SumOver(f, S) ==
    IF S = {} THEN 0
    ELSE LET x == CHOOSE y \in S : TRUE IN f[x] + SumOver(f, S \ {x})

\* number of onValidPost invocations so far
Accepted == SumOver(acceptCount, Ids)

\* skipped beyond the too-old, too-new and no-keyword rejections
Excess(pr) == pr.stats.skipped - (pr.stats.tooOld + pr.stats.tooNew + pr.stats.noKeyword)

CountersConsistent ==
    /\ processor.stats.total =
          processor.stats.inRange + processor.stats.noDup
             + processor.stats.noDate + processor.stats.skipped
    /\ uniqueSeen(processor) = processor.stats.total - processor.stats.noDup
    /\ Excess(processor) >= 0
    /\ processor.stats.inRange = Accepted

\* C37: after any sequence of process() calls total = inRange + noDup +
\* noDate + skipped, uniqueSeen = total - noDup, skipped is at least tooOld +
\* tooNew + noKeyword and exceeds it by one for each already-archived
\* rejection, and inRange is the number of onValidPost invocations
C37_CountersConsistent ==
    /\ []CountersConsistent
    /\ [][Called =>
            Excess(processor') = Excess(processor)
               + (IF FirstViolated(processor, lastPost') = 5 THEN 1 ELSE 0)]_vars

\* one call was accepted and one rejected as already archived: skipped is
\* one above the three named rejections
C37_Witness ==
    /\ processor.stats.total = 2
    /\ processor.stats.inRange = 1
    /\ processor.stats.skipped = 1
    /\ Excess(processor) = 1
    /\ uniqueSeen(processor) = 2


CallsOf(id, at) == {c \in Callers : lastPost.calls[c] = [id |-> id, at |-> at]}

RecordsOf(id) == {k \in 1..Len(lastPost.posts) : lastPost.posts[k] = id}

Settled(id) ==
    /\ \E c \in Callers : lastPost.calls[c].id = id
    /\ CallsOf(id, "saving") = {}

\* C38 as stated: once the calls made with an identifier have settled,
\* exactly one of them returned true and the store holds exactly one
\* record for it
C38_ExactlyOneReturnsTrue ==
    \A id \in Ids :
        Settled(id) =>
            /\ Cardinality(CallsOf(id, "true")) = 1
            /\ Cardinality(RecordsOf(id)) = 1

\* C38 amended: as soon as a call was made with an identifier the store
\* holds exactly one record for it; exactly one of the calls made with it
\* does not return false, and that one returns true unless its file write
\* fails
C38_ExactlyOneAppends ==
    \A id \in Ids :
        (\E c \in Callers : lastPost.calls[c].id = id) =>
            /\ Cardinality(RecordsOf(id)) = 1
            /\ Cardinality(CallsOf(id, "saving") \cup CallsOf(id, "true")
                              \cup CallsOf(id, "raised")) = 1

\* two calls with one identifier overlapped: the first was still saving
\* when the second returned false, then returned true
C38_Witness ==
    \E id \in Ids, c, d \in Callers :
        /\ c # d
        /\ lastPost.calls[c] = [id |-> id, at |-> "true"]
        /\ lastPost.calls[d] = [id |-> id, at |-> "false"]
        /\ Cardinality(RecordsOf(id)) = 1

\* the stable field of the value yielded by driveScroll
YieldedStable(sc) == sc.stableCount >= MAX_STABLE_ITERS

\* C39: at every yield of driveScroll the stable counter lies in
\* 0 .. MAX_STABLE_ITERS - 1, so the stable field of the yielded value is
\* false; once the counter has reached the maximum the driver has returned
C39_NeverYieldsStable ==
    /\ scroller.pc = "yielded" =>
          /\ scroller.stableCount \in 0..(MAX_STABLE_ITERS - 1)
          /\ ~YieldedStable(scroller)
    /\ scroller.stableCount >= MAX_STABLE_ITERS => scroller.pc = "done"

\* the driver yielded with the counter one short of the maximum
C39_Witness ==
    /\ scroller.pc = "yielded"
    /\ scroller.stableCount = MAX_STABLE_ITERS - 1

\* C40: normalizePost returns null for a node without an identifier or
\* without a timestamp, so no post handed to onPost lacks its publish date
\* (checked on nodes that carry an image, which looksLikePost admits
\* without a timestamp)
C40_NoUndatedPostEmitted ==
    (queue # <<>> /\ lastPost.imageUrl # NoUrl) =>
        \A k \in 1..Len(queue) : queue[k].publishedAt # NoDate

====
